---------------------------- MODULE Spec2Model ----------------------------
(***************************************************************************)
(* Cuckoo Breeding Ground (CBG) hash table, src/cbg.hpp, class CBG_IMPL    *)
(* instantiated as cbg::Set_SoA<NUM_ELEMS_BUCKET, uint64_t>.               *)
(*                                                                         *)
(* The table is the pair of arrays of KeyLayout_SoA: metadata (one 16 bit  *)
(* word per bin) and keys (called data here).  Every public operation is   *)
(* one action; the loops of the code are RECURSIVE operators that thread   *)
(* a record s = [m, d, n, N, gm, gk, oob, af, hang]:                       *)
(*   m, d   the metadata and key arrays on 0..N-1, followed by Slack bins  *)
(*          of the memory behind them                                      *)
(*   n, N   num_elems and num_buckets                                      *)
(*   gm, gk what the memory behind the arrays holds when the operation     *)
(*          starts and after every reallocation (metadata word, key): an   *)
(*          access there is undefined behaviour, the action draws the      *)
(*          contents nondeterministically; a write there stays until the   *)
(*          operation ends                                                 *)
(*   oob    a read or write outside 0..N-1 happened                        *)
(*   af     an assert() of the code evaluated to false                     *)
(*   dbg    a write through Update_Bin_At_Debug broke one of its three     *)
(*          assertions, or wrote label 0                                   *)
(*   hang   a loop of the code does not end                                *)
(* size_t values are kept as the signed representative of their residue    *)
(* modulo 2^64: SIZE_MAX is -1 and unsigned comparisons are ULt/UGe.       *)
(* A 64 bit hash is a tuple of four 16 bit limbs, least significant first, *)
(* so that fastrange64 and rot64 are computed exactly.                     *)
(***************************************************************************)
EXTENDS Integers, Sequences, FiniteSets, Bags, TLC

VARIABLES
    NUM_ELEMS_BUCKET,   \* template parameter k of the instantiation
    num_buckets,        \* CBG_IMPL::num_buckets
    num_elems,          \* CBG_IMPL::num_elems
    metadata,           \* MetadataLayout_SoA::metadata
    data,               \* KeyLayout_SoA::keys
    labels,             \* Cuckoo_1t::labels (research_cuckoo_lsa.cpp)
    pc,                 \* "ready", or where the program stopped responding
    oob,                \* an out-of-bounds access has happened so far
    assert_failed,      \* an assert() has evaluated to false so far
    inserted,           \* ghost: keys with insert(x) returned and no erase(x), clear() since
    expected,           \* ghost: per key, insert calls minus erase calls since the last clear()
    last,               \* ghost: what the last operation was, the capacity it
                        \*        began with and what it did
    nops                \* ghost: number of operations performed

vars == <<NUM_ELEMS_BUCKET, num_buckets, num_elems, metadata, data, labels, pc, oob,
          assert_failed, inserted, expected, last, nops>>

-----------------------------------------------------------------------------
(* Bounds of the model *)

\* largest capacity the model follows; an insert that has to grow past it is
\* left in progress (pc = "growing")
MaxBuckets == 11
\* number of operations in a behaviour of Spec, of SpecGrow and of SpecRoomy
MaxOps == 4
MaxGrowOps == 5
MaxRoomyOps == 5
\* largest capacity asked from the constructor beyond the minimum 2k-2
MaxInitExtra == 2
\* evictions after which one call of try_insert is taken not to return
MaxEvictions == 64
\* capacities above each of the two large starting points of GrowSizes
MaxSizeStep == 24
\* short hashes written by the codec workload: 0 .. MaxHashStep and
\* 255 - MaxHashStep .. 255
MaxHashStep == 1
\* number of inserts and erases in a behaviour of SpecSteps
MaxStepOps == 4

(* Program constants *)
L_MAX == 7
\* _grow_factor = 1.2f is GrowFactorBits * 2^-23
GrowFactorBits == 10066330
SIZE_MAX == -1

\* bucket sizes explored (static_assert: 2 <= NUM_ELEMS_BUCKET <= 4)
BucketSizes == {2, 3}

MIN_BUCKETS_COUNT == 2 * NUM_ELEMS_BUCKET - 2

\* bins of memory behind each array that the model follows: the windows of the
\* last k-1 entry bins and of the bins in them reach that far
Slack == 2 * (NUM_ELEMS_BUCKET - 1)

\* Set_SoA passes USE_METADATA_SEARCH = true
USE_METADATA_SEARCH == TRUE

-----------------------------------------------------------------------------
(* Unsigned arithmetic on size_t *)

ULt(a, b) == IF (a >= 0) = (b >= 0) THEN a < b ELSE b < 0
UGe(a, b) == ~ULt(a, b)
UGt(a, b) == ULt(b, a)
ULe(a, b) == ~ULt(b, a)

Min(a, b) == IF a <= b THEN a ELSE b
Max(a, b) == IF a >= b THEN a ELSE b

-----------------------------------------------------------------------------
(* Keys and the hasher.  The hasher is a template argument; the model uses  *)
(* a fixed table over a small universe of keys.  A hash is <<l0,l1,l2,l3>>, *)
(* the 16 bit limbs of the 64 bit value, l0 least significant.              *)

NoKey == 0
Keys == {1, 2, 3, 4}
DistinctKeys == {5, 6, 7, 8, 9}

\* 0xd020c49bd0208a01, 0xc8f5c28fcf5c5b02, 0xd78d4fdfd78db503 and
\* 0xcb028a01cb028a01: the two entry bins of keys 1 and 3 coincide at every
\* capacity the model reaches, those of key 4 at every capacity there is
\* (rot64(h, 32) = h), keys 1 and 4 carry the same short hash, and the entry
\* bins of the four keys are next to each other
\* Keys 5 to 9 hash to 0xedb44f977cf5781e, 0x7c68debe7598dd83,
\* 0xc82c0765ae500153, 0x55c6cd98ceee9d14 and 0xa0eb10b56a503d31: their
\* primary and secondary entry bins differ
hash_elem(key) ==
    CASE key = 1 -> <<35329, 53280, 50331, 53280>>
      [] key = 2 -> <<23298, 53084, 49807, 51445>>
      [] key = 3 -> <<46339, 55181, 20447, 55181>>
      [] key = 4 -> <<35329, 51970, 35329, 51970>>
      [] key = 5 -> <<30750, 31989, 20375, 60852>>
      [] key = 6 -> <<56707, 30104, 57022, 31848>>
      [] key = 7 -> <<339, 44624, 1893, 51244>>
      [] key = 8 -> <<40212, 52974, 52632, 21958>>
      [] key = 9 -> <<15665, 27216, 4277, 41195>>
      [] OTHER   -> <<0, 0, 0, 0>>

\* rot64(hash, 32)
get_hash1(hash) == <<hash[3], hash[4], hash[1], hash[2]>>

\* (uint64_t)(((__uint128_t)word * (__uint128_t)p) >> 64), for p < 2^15
fastrange(word, p) ==
    LET c0 == (word[1] * p) \div 65536
        c1 == (word[2] * p + c0) \div 65536
        c2 == (word[3] * p + c1) \div 65536
    IN  (word[4] * p + c2) \div 65536

\* hash & 0xFF00 : the short hash kept in the second metadata byte
ShortHash(hash) == (hash[1] \div 256) * 256


-----------------------------------------------------------------------------
(* Metadata codec, MetadataLayout_SoA.  Bits of the 16 bit word:            *)
(* 0..2 label, 3..4 distance, 5 item in reversed window, 6 bucket is        *)
(* reversed, 7 unlucky bucket, 8..15 short hash.                            *)

RECURSIVE BitOr(_, _)
BitOr(a, b) ==
    IF a = 0 THEN b
    ELSE IF b = 0 THEN a
    ELSE (IF a % 2 = 1 \/ b % 2 = 1 THEN 1 ELSE 0) + 2 * BitOr(a \div 2, b \div 2)

Low16(x) == x % 65536

LabelOf(w) == w % 8
DistanceOf(w) == (w \div 8) % 4
ItemReversedOf(w) == (w \div 32) % 2 = 1
BucketReversedOf(w) == (w \div 64) % 2 = 1
UnluckyOf(w) == (w \div 128) % 2 = 1
HashOf(w) == (w \div 256) * 256

\* metadata[pos] & 0b11'000'000
BucketBitsOf(w) == ((w \div 64) % 4) * 64

\* an Update_Bin_At that places distance_to_base one bit higher, over the
\* item_in_reversed_window bit
UpdatedWord_Shift4(w, distance_to_base, is_reverse_item, label, hash) ==
    BitOr(BitOr(BitOr(HashOf(Low16(hash)), BucketBitsOf(w)),
                IF is_reverse_item THEN 32 ELSE 0),
          BitOr(Low16(distance_to_base * 16), Low16(label)))

\* the word written by Update_Bin_At over the old word w:
\*   (hash & 0xFF00) | (w & 0b11000000) | (is_reverse_item ? 0b100000 : 0)
\*   | (distance_to_base << 3) | label
\* the fields do not overlap when distance_to_base < 4 and label < 8, and the
\* bitwise or is then their sum
UpdatedWord(w, distance_to_base, is_reverse_item, label, hash) ==
    IF distance_to_base \in 0 .. 3 /\ label \in 0 .. 7
    THEN HashOf(Low16(hash)) + BucketBitsOf(w) + (IF is_reverse_item THEN 32 ELSE 0)
         + distance_to_base * 8 + label
    ELSE BitOr(BitOr(BitOr(HashOf(Low16(hash)), BucketBitsOf(w)),
                     IF is_reverse_item THEN 32 ELSE 0),
               BitOr(Low16(distance_to_base * 8), Low16(label)))

InRange(s, pos) == pos >= 0 /\ pos < s.N

\* the bins of the arrays and the memory behind them that the table follows
Mapped(s, pos) == pos \in DOMAIN s.m

\* metadata[pos]; outside the array the read returns what memory holds there
at(s, pos) == IF Mapped(s, pos) THEN s.m[pos] ELSE s.gm

\* keys[pos]
GetKey(s, pos) == IF Mapped(s, pos) THEN s.d[pos] ELSE s.gk

\* records that the code accessed bin pos
Touch(s, pos) == IF InRange(s, pos) THEN s ELSE [s EXCEPT !.oob = TRUE]

\* metadata[pos] = w; a write outside the array lands in the memory behind it
PutWord(s, pos, w) ==
    IF Mapped(s, pos) THEN Touch([s EXCEPT !.m[pos] = w], pos) ELSE Touch(s, pos)

Get_Label(s, pos) == LabelOf(at(s, pos))
Is_Empty(s, pos) == Get_Label(s, pos) = 0
Get_Hash(s, pos) == HashOf(at(s, pos))
Is_Item_In_Reverse_Bucket(s, pos) == ItemReversedOf(at(s, pos))
Distance_to_Entry_Bin(s, pos) == DistanceOf(at(s, pos))
Is_Bucket_Reversed(s, pos) == BucketReversedOf(at(s, pos))

\* a Set_Empty that zeroes the whole word, bucket flags included
Set_Empty_Zeroing(s, pos) == PutWord(s, pos, 0)

\* metadata[pos] &= 0b11'000'000
Set_Empty(s, pos) == PutWord(s, pos, BucketBitsOf(at(s, pos)))

Update_Bin_At(s, pos, distance_to_base, is_reverse_item, label, hash) ==
    PutWord(s, pos, UpdatedWord(at(s, pos), distance_to_base, is_reverse_item, label, hash))

\* a Set_Unlucky_Bucket that leaves the word as it is
Set_Unlucky_Bucket_Skipped(s, pos) == s

\* metadata[pos] |= 0b1000'0000
Set_Unlucky_Bucket(s, pos) ==
    PutWord(s, pos, IF UnluckyOf(at(s, pos)) THEN at(s, pos) ELSE at(s, pos) + 128)

\* metadata[pos] |= 0b0100'0000
Set_Bucket_Reversed(s, pos) ==
    PutWord(s, pos, IF BucketReversedOf(at(s, pos)) THEN at(s, pos) ELSE at(s, pos) + 64)

\* memset(metadata + initial_pos, 0, size_in_bins * sizeof(uint16_t))
Clear(s, initial_pos, size_in_bins) ==
    LET range == {p \in DOMAIN s.m : p >= initial_pos /\ p < initial_pos + size_in_bins}
        s1 == [s EXCEPT !.m = [p \in DOMAIN s.m |-> IF p \in range THEN 0 ELSE s.m[p]]]
    IN  IF size_in_bins > 0 /\ (initial_pos < 0 \/ initial_pos + size_in_bins > s.N)
        THEN [s1 EXCEPT !.oob = TRUE] ELSE s1

(* Key storage, KeyLayout_SoA *)

SaveElem(s, pos, elem) ==
    IF Mapped(s, pos) THEN Touch([s EXCEPT !.d[pos] = elem], pos) ELSE Touch(s, pos)

MoveElem(s, dest, orig) == SaveElem(Touch(s, orig), dest, GetKey(s, orig))

GetElem(s, pos) == GetKey(s, pos)

\* EQ::operator()(DATA::GetKey(pos), r)
cmp_elems(s, pos, r) == GetKey(s, pos) = r

-----------------------------------------------------------------------------
(* Insertion algorithm utilities *)

Update_Bin_At_Debug(s, pos, distance_to_base, is_reverse_item, label, hash) ==
    LET ok == /\ ULt(distance_to_base, NUM_ELEMS_BUCKET)
              /\ label <= L_MAX
              /\ ULt(pos, s.N)
        s1 == IF ok THEN s ELSE [s EXCEPT !.af = TRUE, !.dbg = TRUE]
        s2 == IF label >= 1 THEN s1 ELSE [s1 EXCEPT !.dbg = TRUE]
    IN  Update_Bin_At(s2, pos, distance_to_base, is_reverse_item, label, hash)

RECURSIVE CalcMinLoop(_, _, _, _, _)
CalcMinLoop(s, bucket_pos, i, minimum, pos) ==
    IF minimum # 0 /\ i < NUM_ELEMS_BUCKET
    THEN LET label_value == Get_Label(s, bucket_pos + i)
         IN  IF minimum > label_value
             THEN CalcMinLoop(s, bucket_pos, i + 1, label_value, bucket_pos + i)
             ELSE CalcMinLoop(s, bucket_pos, i + 1, minimum, pos)
    ELSE <<minimum, pos>>

\* <<minimum label, a position holding it>> over the k bins from bucket_pos
Calculate_Minimum(s, bucket_pos) ==
    CalcMinLoop(s, bucket_pos, 1, Get_Label(s, bucket_pos), bucket_pos)

Belong_to_Bucket(s, elem_pos) ==
    IF Is_Empty(s, elem_pos) THEN SIZE_MAX
    ELSE elem_pos + (IF Is_Item_In_Reverse_Bucket(s, elem_pos) THEN NUM_ELEMS_BUCKET - 1 ELSE 0)
                  - Distance_to_Entry_Bin(s, elem_pos)

Count_Empty(s, pos) ==
    Cardinality({i \in 0 .. NUM_ELEMS_BUCKET - 1 : Is_Empty(s, pos + i)})

Count_Elems_In_Bucket_Non_Reversed(s, bucket_pos) ==
    Cardinality({i \in 0 .. NUM_ELEMS_BUCKET - 1 :
        /\ ~Is_Item_In_Reverse_Bucket(s, bucket_pos + i)
        /\ i = Distance_to_Entry_Bin(s, bucket_pos + i)})

\* <<count, count outside [range_init, range_init + k)>>
Count_Elems_In_Bucket_Outside_Range(s, bucket_pos, range_init) ==
    LET own == {i \in 0 .. NUM_ELEMS_BUCKET - 1 :
                  /\ ~Is_Item_In_Reverse_Bucket(s, bucket_pos + i)
                  /\ i = Distance_to_Entry_Bin(s, bucket_pos + i)}
    IN  <<Cardinality(own),
          Cardinality({i \in own : UGe(bucket_pos + i - range_init, NUM_ELEMS_BUCKET)})>>


-----------------------------------------------------------------------------
(* Rearrangement engine *)

\* for (; j < k && !Is_Empty(bucket_pos - j); j--) {}
RECURSIVE FindEmptySpace(_, _, _)
FindEmptySpace(s, bucket_pos, j) ==
    IF ULt(j, NUM_ELEMS_BUCKET) /\ ~Is_Empty(s, bucket_pos - j)
    THEN FindEmptySpace(s, bucket_pos, j - 1)
    ELSE j

RECURSIVE ReverseLoop(_, _, _, _)
ReverseLoop(s, bucket_pos, i, j) ==
    IF ~ULt(i, NUM_ELEMS_BUCKET) THEN s
    ELSE IF Belong_to_Bucket(s, bucket_pos + i) = bucket_pos
    THEN LET j1 == FindEmptySpace(s, bucket_pos, j)
         IN  IF ULt(j1, NUM_ELEMS_BUCKET)
             THEN LET s1 == Update_Bin_At_Debug(s, bucket_pos - j1, NUM_ELEMS_BUCKET - 1 - j1, TRUE,
                                                Get_Label(s, bucket_pos + i), Get_Hash(s, bucket_pos + i))
                      s2 == Set_Empty(s1, bucket_pos + i)
                      s3 == MoveElem(s2, bucket_pos - j1, bucket_pos + i)
                  IN  ReverseLoop(s3, bucket_pos, i - 1, j1)
             ELSE LET s0 == IF i = 0 THEN s ELSE [s EXCEPT !.af = TRUE]
                      s1 == Update_Bin_At_Debug(s0, bucket_pos, NUM_ELEMS_BUCKET - 1, TRUE,
                                                Get_Label(s0, bucket_pos), Get_Hash(s0, bucket_pos))
                  IN  ReverseLoop(s1, bucket_pos, i - 1, j1)
    ELSE ReverseLoop(s, bucket_pos, i - 1, j)

\* a Reverse_Bucket that moves the elements without Set_Bucket_Reversed
Reverse_Bucket_Unmarked(s, bucket_pos) ==
    ReverseLoop(s, bucket_pos, NUM_ELEMS_BUCKET - 1, NUM_ELEMS_BUCKET - 1)

Reverse_Bucket(s, bucket_pos) ==
    ReverseLoop(Set_Bucket_Reversed(s, bucket_pos), bucket_pos,
                NUM_ELEMS_BUCKET - 1, NUM_ELEMS_BUCKET - 1)

\* the "TODO: Remove this code" tail of both reversals: the minimum of the
\* window is returned whether or not it is an empty bin
ReturnMinimum(s, bucket_init) ==
    LET mp == Calculate_Minimum(s, bucket_init)
    IN  [s |-> IF mp[1] = 0 THEN s ELSE [s EXCEPT !.af = TRUE], pos |-> mp[2]]

\* first part of Find_Empty_Pos_Hopscotch: reverse this bucket
CanReverseThis(s, bucket_pos) ==
    /\ ~Is_Bucket_Reversed(s, bucket_pos)
    /\ UGe(bucket_pos, NUM_ELEMS_BUCKET)
    /\ LET count_empty == Count_Empty(s, bucket_pos + 1 - NUM_ELEMS_BUCKET)
           count_elems == Count_Elems_In_Bucket_Non_Reversed(s, bucket_pos)
       IN  /\ count_empty # 0
           /\ \/ count_empty > count_elems
              \/ count_empty = count_elems /\ Belong_to_Bucket(s, bucket_pos) = bucket_pos

\* bucket_init = bucket_pos + (Is_Bucket_Reversed(bucket_pos) ? 1 - k : 0)
MinimumAfterReverse(s, bucket_pos) ==
    ReturnMinimum(s, bucket_pos + (IF Is_Bucket_Reversed(s, bucket_pos)
                                   THEN 1 - NUM_ELEMS_BUCKET ELSE 0))

ReverseThis(s, bucket_pos) ==
    MinimumAfterReverse(IF Count_Elems_In_Bucket_Non_Reversed(s, bucket_pos) # 0
                        THEN Reverse_Bucket(s, bucket_pos)
                        ELSE Set_Bucket_Reversed(s, bucket_pos),
                        bucket_pos)

\* second part: the condition under which the bucket owning bin bucket_init + i
\* is reversed
CanReverseElem(s, bucket_pos, bucket_init, i) ==
    LET pos_elem == bucket_init + i
        bucket_elem == pos_elem - Distance_to_Entry_Bin(s, pos_elem)
        count_empty == Count_Empty(s, bucket_elem + 1 - NUM_ELEMS_BUCKET)
        cc == Count_Elems_In_Bucket_Outside_Range(s, bucket_elem, bucket_init)
    IN  /\ ~Is_Item_In_Reverse_Bucket(s, pos_elem)
        /\ bucket_elem # bucket_pos
        /\ count_empty # 0
        /\ cc[2] < count_empty
        /\ \/ count_empty >= cc[1]
           \/ count_empty + 1 = cc[1] /\ Belong_to_Bucket(s, bucket_elem) = bucket_elem

\* the two asserts in front of that condition
ReverseElemAsserts(s, bucket_pos, bucket_init, i) ==
    LET pos_elem == bucket_init + i
        bucket_elem == pos_elem - Distance_to_Entry_Bin(s, pos_elem)
        cc == Count_Elems_In_Bucket_Outside_Range(s, bucket_elem, bucket_init)
    IN  (/\ ~Is_Item_In_Reverse_Bucket(s, pos_elem)
         /\ bucket_elem # bucket_pos
         /\ Count_Empty(s, bucket_elem + 1 - NUM_ELEMS_BUCKET) # 0)
        => (cc[1] > cc[2] /\ cc[1] >= 1)

RECURSIVE ReverseElems(_, _, _, _)
ReverseElems(s, bucket_pos, bucket_init, i) ==
    IF i >= NUM_ELEMS_BUCKET THEN [s |-> s, pos |-> SIZE_MAX]
    ELSE LET s0 == IF ReverseElemAsserts(s, bucket_pos, bucket_init, i)
                   THEN s ELSE [s EXCEPT !.af = TRUE]
         IN  IF CanReverseElem(s, bucket_pos, bucket_init, i)
             THEN LET bucket_elem == bucket_init + i - Distance_to_Entry_Bin(s, bucket_init + i)
                  IN  ReturnMinimum(Reverse_Bucket(s0, bucket_elem), bucket_init)
             ELSE ReverseElems(s0, bucket_pos, bucket_init, i + 1)

\* a search that finds no candidate and stops at the blank itself
FindSwap_AtBlank(s, pos_blank, pos_swap) == pos_blank

\* for (; (pos_blank - pos_swap) > (k - 1 - Distance_to_Entry_Bin(pos_swap)); pos_swap++) {}
RECURSIVE FindSwap(_, _, _)
FindSwap(s, pos_blank, pos_swap) ==
    IF UGt(pos_blank - pos_swap, NUM_ELEMS_BUCKET - 1 - Distance_to_Entry_Bin(s, pos_swap))
    THEN FindSwap(s, pos_blank, pos_swap + 1)
    ELSE pos_swap

\* while ((pos_blank - bucket_init) >= k) { ... }
RECURSIVE HopWalk(_, _, _)
HopWalk(s, bucket_init, pos_blank) ==
    IF UGe(pos_blank - bucket_init, NUM_ELEMS_BUCKET)
    THEN LET pos_swap == FindSwap(s, pos_blank, pos_blank + 1 - NUM_ELEMS_BUCKET)
             s1 == MoveElem(s, pos_blank, pos_swap)
             s2 == Update_Bin_At_Debug(s1, pos_blank,
                       Distance_to_Entry_Bin(s1, pos_swap) + (pos_blank - pos_swap),
                       Is_Item_In_Reverse_Bucket(s1, pos_swap),
                       Get_Label(s1, pos_swap), Get_Hash(s1, pos_swap))
         IN  IF pos_swap = pos_blank
             THEN [s |-> [s2 EXCEPT !.hang = TRUE], pos |-> pos_blank]
             ELSE HopWalk(s2, bucket_init, pos_swap)
    ELSE [s |-> s, pos |-> pos_blank]

RECURSIVE HopScan(_, _, _, _)
HopScan(s, bucket_init, i, max_dist_to_move) ==
    IF i <= max_dist_to_move /\ ULt(bucket_init + i, s.N)
    THEN IF Is_Empty(s, bucket_init + i)
         THEN HopWalk(s, bucket_init, bucket_init + i)
         ELSE LET current_max_move == i + NUM_ELEMS_BUCKET - 1
                                        - Distance_to_Entry_Bin(s, bucket_init + i)
              IN  HopScan(s, bucket_init, i + 1,
                          IF UGt(current_max_move, max_dist_to_move)
                          THEN current_max_move ELSE max_dist_to_move)
    ELSE [s |-> s, pos |-> SIZE_MAX]

\* a hopscotch that marks the bin it started from when it finds nothing
Hopscotch_Marking(r, bucket_init) ==
    IF r.pos # SIZE_MAX
    THEN r
    ELSE LET h == HopScan(r.s, bucket_init, 0, NUM_ELEMS_BUCKET - 1)
         IN  IF h.pos = SIZE_MAX
             THEN [h EXCEPT !.s = Set_Bucket_Reversed(h.s, bucket_init)]
             ELSE h

\* third part: hopscotch, when the reversals r found no position
Hopscotch(r, bucket_init) ==
    IF r.pos # SIZE_MAX
    THEN r
    ELSE HopScan(r.s, bucket_init, 0, NUM_ELEMS_BUCKET - 1)

\* Reverse or hopscotch for an empty bin: [s |-> the table afterwards,
\* pos |-> the position found or SIZE_MAX]
Find_Empty_Pos_Hopscotch(s, bucket_pos, bucket_init) ==
    IF CanReverseThis(s, bucket_pos)
    THEN ReverseThis(s, bucket_pos)
    ELSE Hopscotch(IF UGe(bucket_init, 2 * NUM_ELEMS_BUCKET)
                   THEN ReverseElems(s, bucket_pos, bucket_init, 0)
                   ELSE [s |-> s, pos |-> SIZE_MAX],
                   bucket_init)


-----------------------------------------------------------------------------
(* Insertion engine *)

\* window start of an entry bin under its current orientation
WindowInit(s, bucket_pos) ==
    bucket_pos + (IF Is_Bucket_Reversed(s, bucket_pos) THEN 1 - NUM_ELEMS_BUCKET ELSE 0)

\* the scan of try_insert over one window: all k labels are read;
\* <<minimum, first position holding it>>
RECURSIVE ScanLoop(_, _, _, _, _)
ScanLoop(s, bucket_init, i, min, pos) ==
    IF i < NUM_ELEMS_BUCKET
    THEN LET label_value == Get_Label(s, bucket_init + i)
         IN  IF min > label_value
             THEN ScanLoop(s, bucket_init, i + 1, label_value, bucket_init + i)
             ELSE ScanLoop(s, bucket_init, i + 1, min, pos)
    ELSE <<min, pos>>

ScanWindow(s, bucket_init) ==
    ScanLoop(s, bucket_init, 1, Get_Label(s, bucket_init), bucket_init)

TouchWindow(s, bucket_init) ==
    Touch(Touch(s, bucket_init), bucket_init + NUM_ELEMS_BUCKET - 1)

\* Update_Bin_At_Debug; SaveElem; num_elems++; return true
PutElem(s, pos, bucket_init, is_reversed, label, hash, elem) ==
    LET s1 == Update_Bin_At_Debug(s, pos, pos - bucket_init, is_reversed, label, hash[1])
        s2 == SaveElem(s1, pos, elem)
    IN  [s2 EXCEPT !.n = s2.n + 1]

\* an Evict that gives the bin the label L_MAX
Evict_MaxLabel(s, pos, bucket_init, is_reversed, label, hash, elem) ==
    LET s1 == Update_Bin_At_Debug(s, pos, pos - bucket_init, is_reversed, L_MAX, hash[1])
    IN  <<SaveElem(s1, pos, elem), GetElem(s1, pos)>>

\* Update_Bin_At_Debug; victim = GetElem; SaveElem: <<table, victim>>
Evict(s, pos, bucket_init, is_reversed, label, hash, elem) ==
    LET s1 == Update_Bin_At_Debug(s, pos, pos - bucket_init, is_reversed, label, hash[1])
    IN  <<SaveElem(s1, pos, elem), GetElem(s1, pos)>>

\* the locals of one iteration of the while (true) of try_insert, after the
\* scan of the two windows; s is the table, ev the evictions made so far
Locals(s, elem, ev) ==
    LET hash0 == hash_elem(elem)
        hash1 == get_hash1(hash0)
        bucket1_pos == fastrange(hash0, s.N)
        bucket2_pos == fastrange(hash1, s.N)
        bucket1_init == WindowInit(s, bucket1_pos)
        bucket2_init == WindowInit(s, bucket2_pos)
        mp1 == ScanWindow(s, bucket1_init)
        mp2 == ScanWindow(s, bucket2_init)
    IN  [elem |-> elem, ev |-> ev, hash0 |-> hash0, hash1 |-> hash1,
         bucket1_pos |-> bucket1_pos, bucket2_pos |-> bucket2_pos,
         is_reversed_bucket1 |-> Is_Bucket_Reversed(s, bucket1_pos),
         is_reversed_bucket2 |-> Is_Bucket_Reversed(s, bucket2_pos),
         bucket1_init |-> bucket1_init, bucket2_init |-> bucket2_init,
         min1 |-> mp1[1], pos1 |-> mp1[2], min2 |-> mp2[1], pos2 |-> mp2[2],
         s |-> TouchWindow(TouchWindow(s, bucket1_init), bucket2_init)]

\* the results of one iteration:
\* [s |-> table afterwards, again |-> the loop goes on with the victim,
\*  ok |-> the result, elem |-> the element left in the reference parameter,
\*  ev |-> evictions made, site |-> the step that placed the element,
\*  pos |-> the position the element was written to, or SIZE_MAX]
Placed(c, s, site, pos) ==
    [s |-> s, again |-> FALSE, ok |-> TRUE, elem |-> c.elem, ev |-> c.ev, site |-> site,
     pos |-> pos]

Failed(c, s) ==
    [s |-> s, again |-> FALSE, ok |-> FALSE, elem |-> c.elem, ev |-> c.ev, site |-> "none",
     pos |-> SIZE_MAX]

Evicted(c, e, pos) ==
    [s |-> e[1], again |-> TRUE, ok |-> FALSE, elem |-> e[2], ev |-> c.ev + 1, site |-> "none",
     pos |-> pos]

\* a Cuckoo that always evicts from window 2
Cuckoo_Secondary(c, s) ==
    IF Min(c.min1, c.min2) >= L_MAX
    THEN Failed(c, s)
    ELSE IF c.ev >= MaxEvictions
    THEN Failed(c, [s EXCEPT !.hang = TRUE])
    ELSE Evicted(c, Evict(Set_Unlucky_Bucket(s, c.bucket1_pos), c.pos2, c.bucket2_init,
                          c.is_reversed_bucket2, Min(c.min1 + 1, L_MAX), c.hash1, c.elem),
                 c.pos2)

\* a Cuckoo in which ties of the minima go to window 2
Cuckoo_SecondaryOnTie(c, s) ==
    IF Min(c.min1, c.min2) >= L_MAX
    THEN Failed(c, s)
    ELSE IF c.ev >= MaxEvictions
    THEN Failed(c, [s EXCEPT !.hang = TRUE])
    ELSE IF c.min1 < c.min2
    THEN Evicted(c, Evict(s, c.pos1, c.bucket1_init, c.is_reversed_bucket1,
                          Min(c.min2 + 1, L_MAX), c.hash0, c.elem),
                 c.pos1)
    ELSE Evicted(c, Evict(Set_Unlucky_Bucket(s, c.bucket1_pos), c.pos2, c.bucket2_init,
                          c.is_reversed_bucket2, Min(c.min1 + 1, L_MAX), c.hash1, c.elem),
                 c.pos2)

\* after the last rearrangement found nothing: give up or evict
Cuckoo(c, s) ==
    IF Min(c.min1, c.min2) >= L_MAX
    THEN Failed(c, s)
    ELSE IF c.ev >= MaxEvictions
    THEN Failed(c, [s EXCEPT !.hang = TRUE])
    ELSE IF c.min1 <= c.min2
    THEN Evicted(c, Evict(s, c.pos1, c.bucket1_init, c.is_reversed_bucket1,
                          Min(c.min2 + 1, L_MAX), c.hash0, c.elem),
                 c.pos1)
    ELSE Evicted(c, Evict(Set_Unlucky_Bucket(s, c.bucket1_pos), c.pos2, c.bucket2_init,
                          c.is_reversed_bucket2, Min(c.min1 + 1, L_MAX), c.hash1, c.elem),
                 c.pos2)

\* a PutFound that writes the element as one of a window that is not reversed
PutFound_Unoriented(s, pos, bucket_pos, label, hash, elem) ==
    PutElem(s, pos, WindowInit(s, bucket_pos), FALSE, label, hash, elem)

\* PutElem into the position a rearrangement found, under the orientation the
\* entry bin has afterwards
PutFound(s, pos, bucket_pos, label, hash, elem) ==
    PutElem(s, pos, WindowInit(s, bucket_pos), Is_Bucket_Reversed(s, bucket_pos),
            label, hash, elem)

\* after Find_Empty_Pos_Hopscotch(bucket2_pos, bucket2_init)
Secondary(c, f2) ==
    IF f2.pos # SIZE_MAX
    THEN Placed(c, PutFound(Set_Unlucky_Bucket(f2.s, c.bucket1_pos), f2.pos, c.bucket2_pos,
                            Min(c.min1 + 1, L_MAX), c.hash1, c.elem),
                "secondary_rearrange", f2.pos)
    ELSE Cuckoo(c, f2.s)

\* after Find_Empty_Pos_Hopscotch(bucket1_pos, bucket1_init)
Primary(c, f1) ==
    IF f1.pos # SIZE_MAX
    THEN Placed(c, PutFound(f1.s, f1.pos, c.bucket1_pos, Min(c.min2 + 1, L_MAX),
                            c.hash0, c.elem),
                "primary_rearrange", f1.pos)
    ELSE IF c.min2 = 0
    THEN Placed(c, PutElem(Set_Unlucky_Bucket(f1.s, c.bucket1_pos), c.pos2, c.bucket2_init,
                           c.is_reversed_bucket2, Min(c.min1 + 1, L_MAX), c.hash1, c.elem),
                "secondary_empty", c.pos2)
    ELSE Secondary(c, Find_Empty_Pos_Hopscotch(f1.s, c.bucket2_pos, c.bucket2_init))

\* one iteration of the while (true) of try_insert
Scanned(c) ==
    IF c.min1 = 0
    THEN Placed(c, PutElem(c.s, c.pos1, c.bucket1_init, c.is_reversed_bucket1,
                           Min(c.min2 + 1, L_MAX), c.hash0, c.elem),
                "primary_empty", c.pos1)
    ELSE Primary(c, Find_Empty_Pos_Hopscotch(c.s, c.bucket1_pos, c.bucket1_init))

try_insert_step(s0, elem, ev) ==
    IF s0.hang
    THEN [s |-> s0, again |-> FALSE, ok |-> FALSE, elem |-> elem, ev |-> ev, site |-> "none",
          pos |-> SIZE_MAX]
    ELSE Scanned(Locals(s0, elem, ev))

\* while (true) { ... }
RECURSIVE try_insert_loop(_)
try_insert_loop(t) ==
    IF t.again THEN try_insert_loop(try_insert_step(t.s, t.elem, t.ev)) ELSE t

try_insert(s, elem) ==
    try_insert_loop([s |-> s, again |-> TRUE, ok |-> FALSE, elem |-> elem, ev |-> 0,
                     site |-> "none", pos |-> SIZE_MAX])


-----------------------------------------------------------------------------
(* Lookup engine *)

\* the test made on one bin: with the short hash prefilter
\*   ((cc ^ h) & 0xFF00) == 0 && (cc & 0b111) && cmp_elems(pos, elem)
\* and without it   cmp_elems(pos, elem) && (cc & 0b111)
Probe(s, pos, elem, hash, prefilter) ==
    /\ prefilter => HashOf(at(s, pos)) = ShortHash(hash)
    /\ LabelOf(at(s, pos)) # 0
    /\ cmp_elems(s, pos, elem)

\* the unrolled probes of bins pos + step, pos + 2 step, ... of one window
RECURSIVE ProbeRest(_, _, _, _, _, _, _)
ProbeRest(s, pos, step, j, elem, hash, prefilter) ==
    IF j >= NUM_ELEMS_BUCKET THEN SIZE_MAX
    ELSE IF Probe(s, pos + step * j, elem, hash, prefilter) THEN pos + step * j
    ELSE ProbeRest(s, pos, step, j + 1, elem, hash, prefilter)

ProbeBucket(s, pos, elem, hash, prefilter) ==
    IF Probe(s, pos, elem, hash, prefilter) THEN pos
    ELSE ProbeRest(s, pos, IF BucketReversedOf(at(s, pos)) THEN -1 ELSE 1, 1,
                   elem, hash, prefilter)

\* the common shape of the three lookups: the second bucket is probed when
\* always2 holds or the unlucky bit of the first entry bin is set
FindIn(s, elem, prefilter, always2) ==
    LET hash == hash_elem(elem)
        pos == fastrange(hash, s.N)
        c0 == at(s, pos)
        first == ProbeBucket(s, pos, elem, hash, prefilter)
    IN  IF first # SIZE_MAX THEN first
        ELSE IF always2 \/ UnluckyOf(c0)
             THEN ProbeBucket(s, fastrange(get_hash1(hash), s.N), elem,
                              get_hash1(hash), prefilter)
             ELSE SIZE_MAX

find_position_negative(s, elem) == FindIn(s, elem, TRUE, FALSE)

find_position_negative_no_metadata(s, elem) == FindIn(s, elem, FALSE, FALSE)

find_position_positive(s, elem) == FindIn(s, elem, FALSE, TRUE)

find_position(s, elem, hint) ==
    IF hint = "Expect_Positive" THEN find_position_positive(s, elem)
    ELSE IF USE_METADATA_SEARCH THEN find_position_negative(s, elem)
    ELSE find_position_negative_no_metadata(s, elem)

Hints == {"Unknow", "Expect_Positive", "Expect_Negative"}

contains(s, elem, hint) == find_position(s, elem, hint) # SIZE_MAX

count(s, elem, hint) == IF find_position(s, elem, hint) # SIZE_MAX THEN 1 ELSE 0

-----------------------------------------------------------------------------
(* Multisets of elements, for the statements about rehash *)

Occupied(s) == {p \in 0 .. s.N - 1 : LabelOf(s.m[p]) # 0}

\* the elements held in occupied bins, as a bag
TableBag(s) ==
    LET held == {s.d[p] : p \in Occupied(s)}
    IN  [x \in held |-> Cardinality({p \in Occupied(s) : s.d[p] = x})]

SeqBag(q) ==
    LET held == {q[i] : i \in DOMAIN q}
    IN  [x \in held |-> Cardinality({i \in DOMAIN q : q[i] = x})]

-----------------------------------------------------------------------------
(* Resize / rehash *)

\* for (i = 0; i < k - 1; i++) Set_Bucket_Reversed(num_buckets - 1 - i)
RECURSIVE SetTailReversed(_, _)
SetTailReversed(s, i) ==
    IF i < NUM_ELEMS_BUCKET - 1
    THEN SetTailReversed(Set_Bucket_Reversed(s, s.N - 1 - i), i + 1)
    ELSE s

\* ReallocElems, ReallocMetadata, Clear of the new bins, num_elems = 0, tail flags
GrowArrays(s, new_N) ==
    LET s1 == [s EXCEPT !.N = new_N,
                        !.n = 0,
                        !.m = [p \in 0 .. new_N + Slack - 1 |->
                                 IF p < s.N THEN s.m[p] ELSE IF p < new_N THEN 0 ELSE s.gm],
                        !.d = [p \in 0 .. new_N + Slack - 1 |->
                                 IF p < s.N THEN s.d[p] ELSE IF p < new_N THEN NoKey ELSE s.gk]]
    IN  SetTailReversed(s1, 0)

\* a walk that moves an element to an empty bin of its new window wherever
\* that window starts
WalkBin_AnyWindow(s, i, tmp) ==
    IF Is_Empty(s, i) THEN <<Clear(s, i, 1), tmp>>
    ELSE LET hash0 == hash_elem(GetKey(s, i))
             bucket1_pos == fastrange(hash0, s.N)
             is_bucket1_reversed == Is_Bucket_Reversed(s, bucket1_pos)
             bucket1_pos_init == bucket1_pos + (IF is_bucket1_reversed
                                                THEN 1 - NUM_ELEMS_BUCKET ELSE 0)
             mp == Calculate_Minimum(s, bucket1_pos_init)
         IN  IF mp[1] = 0
             THEN LET s1 == Update_Bin_At_Debug(s, mp[2], mp[2] - bucket1_pos_init,
                                                is_bucket1_reversed, 1, hash0[1])
                      s2 == MoveElem(s1, mp[2], i)
                  IN  <<Clear([s2 EXCEPT !.n = s2.n + 1], i, 1), tmp>>
             ELSE <<Clear(s, i, 1), Append(tmp, GetElem(s, i))>>

\* one old bin of the walk: <<table, secondary_tmp>>
WalkBin(s, i, tmp) ==
    IF Is_Empty(s, i) THEN <<Clear(s, i, 1), tmp>>
    ELSE LET hash0 == hash_elem(GetKey(s, i))
             bucket1_pos == fastrange(hash0, s.N)
             is_bucket1_reversed == Is_Bucket_Reversed(s, bucket1_pos)
             bucket1_pos_init == bucket1_pos + (IF is_bucket1_reversed
                                                THEN 1 - NUM_ELEMS_BUCKET ELSE 0)
             mp == Calculate_Minimum(s, bucket1_pos_init)
         IN  IF UGt(bucket1_pos_init, i) /\ mp[1] = 0
             THEN LET s1 == Update_Bin_At_Debug(s, mp[2], mp[2] - bucket1_pos_init,
                                                is_bucket1_reversed, 1, hash0[1])
                      s2 == MoveElem(s1, mp[2], i)
                  IN  <<Clear([s2 EXCEPT !.n = s2.n + 1], i, 1), tmp>>
             ELSE <<Clear(s, i, 1), Append(tmp, GetElem(s, i))>>

\* for (size_t i = old_num_buckets - 1; i > 0; i--), on w = <<table, secondary_tmp>>
RECURSIVE WalkLoop(_, _)
WalkLoop(w, i) ==
    IF i > 0
    THEN WalkLoop(WalkBin(w[1], i, w[2]), i - 1)
    ELSE w

\* the first element, bin 0
WalkFirst(w) ==
    <<Clear(w[1], 0, 1),
      IF Is_Empty(w[1], 0) THEN w[2] ELSE Append(w[2], GetElem(w[1], 0))>>

\* while (!secondary_tmp.empty() && !need_rehash): [s, tmp, need_rehash]
RECURSIVE Drain(_, _)
\* after try_insert(secondary_tmp.back()) returned r
Drained(r, tmp) ==
    IF r.ok
    THEN Drain(r.s, SubSeq(tmp, 1, Len(tmp) - 1))
    ELSE [s |-> r.s, tmp |-> [tmp EXCEPT ![Len(tmp)] = r.elem], need_rehash |-> TRUE]

Drain(s, tmp) ==
    IF tmp = <<>> THEN [s |-> s, tmp |-> tmp, need_rehash |-> FALSE]
    ELSE Drained(try_insert(s, tmp[Len(tmp)]), tmp)

DrainAll(w) == Drain(w[1], w[2])

\* what one pass did: the capacities, the table and secondary_tmp it started
\* from, the elements held by the table and by secondary_tmp before and after,
\* and the entry bins left reversed
Pass(s, new_num_buckets, tmp, dr) ==
    [old_N |-> s.N, new_N |-> new_num_buckets, from |-> s, held |-> tmp,
     before |-> TableBag(s) (+) SeqBag(tmp),
     after |-> TableBag(dr.s) (+) SeqBag(dr.tmp),
     left |-> Len(dr.tmp),
     tail |-> {p \in 0 .. new_num_buckets - 1 : BucketReversedOf(dr.s.m[p])}]

\* the passes of the while (need_rehash) loop.  The result is
\* [s, end |-> "done", "capped" (the next pass needs more than MaxBuckets
\*  bins), "hang" or "crash", passes |-> one record per pass]
RECURSIVE RehashLoop(_, _, _, _)
\* the end of a pass: need_rehash decides whether another one follows
PassEnd(dr, new_num_buckets, log) ==
    IF dr.s.hang
    THEN [s |-> dr.s, end |-> "hang", passes |-> log]
    ELSE IF dr.need_rehash
    THEN RehashLoop(dr.s, new_num_buckets + Max(1, new_num_buckets \div 32), dr.tmp, log)
    ELSE [s |-> dr.s, end |-> "done", passes |-> log]

PassDone(s, new_num_buckets, tmp, passes, dr) ==
    PassEnd(dr, new_num_buckets, Append(passes, Pass(s, new_num_buckets, tmp, dr)))

RehashLoop(s, new_num_buckets, tmp, passes) ==
    IF new_num_buckets > MaxBuckets
    THEN [s |-> s, end |-> "capped", passes |-> passes]
    ELSE IF s.N = 0
    THEN [s |-> [s EXCEPT !.oob = TRUE], end |-> "crash", passes |-> passes]
    ELSE PassDone(s, new_num_buckets, tmp, passes,
                  DrainAll(WalkFirst(WalkLoop(<<GrowArrays(s, new_num_buckets), tmp>>,
                                              s.N - 1))))

\* [s, end, call |-> what this call of rehash did]
Rehashed(s, new_num_buckets, r) ==
    [s |-> r.s, end |-> r.end,
     call |-> [before |-> TableBag(s), after |-> TableBag(r.s),
               requested |-> new_num_buckets, passes |-> r.passes]]

rehash(s, new_num_buckets) ==
    Rehashed(s, new_num_buckets,
             RehashLoop(IF new_num_buckets >= s.N + MIN_BUCKETS_COUNT
                        THEN s ELSE [s EXCEPT !.af = TRUE],
                        new_num_buckets, <<>>, <<>>))

(* get_grow_size multiplies in float: num_buckets is converted to float, the  *)
(* product with _grow_factor is rounded to float and then truncated to       *)
(* size_t.  A float keeps 24 significant bits and rounds to nearest, ties to *)
(* even.  The operators are exact for capacities below 2^26.                 *)

RECURSIVE BitLen(_)
BitLen(x) == IF x = 0 THEN 0 ELSE 1 + BitLen(x \div 2)

\* quotient q with remainder r of a division by 2 * half, rounded to nearest
RoundHalfEven(q, r, half) ==
    IF r > half \/ (r = half /\ q % 2 = 1) THEN q + 1 ELSE q

\* (float)n
ToFloat(n) ==
    IF BitLen(n) <= 24
    THEN n
    ELSE LET u == 2 ^ (BitLen(n) - 24)
         IN  RoundHalfEven(n \div u, n % u, u \div 2) * u

\* size_t(f * _grow_factor) for a float f: the product f * GrowFactorBits is
\* A * 2^24 + B, in units of 2^-23
TimesGrowFactor(f) ==
    LET f1 == f \div 4096
        f0 == f % 4096
        g1 == GrowFactorBits \div 4096
        g0 == GrowFactorBits % 4096
        mid == f1 * g0 + f0 * g1
        low == f0 * g0 + (mid % 4096) * 4096
        B == low % 16777216
        A == f1 * g1 + mid \div 4096 + low \div 16777216
        b == BitLen(A)
    IN  IF A = 0 THEN B \div 8388608
        ELSE IF b < 24
        THEN 2 * A + (RoundHalfEven(B \div 2 ^ b, B % 2 ^ b, 2 ^ (b - 1)) * 2 ^ b) \div 8388608
        ELSE RoundHalfEven(A \div 2 ^ (b - 24),
                           (A % 2 ^ (b - 24)) * 16777216 + B,
                           2 ^ (b - 1)) * 2 ^ (b - 23)

\* max(num_buckets + MIN_BUCKETS_COUNT, size_t(num_buckets * _grow_factor)),
\* SIZE_MAX when that is below num_buckets
get_grow_size(s) ==
    LET new_num_buckets == Max(s.N + MIN_BUCKETS_COUNT, TimesGrowFactor(ToFloat(s.N)))
    IN  IF new_num_buckets < s.N THEN SIZE_MAX ELSE new_num_buckets


-----------------------------------------------------------------------------
(* Public operations, as functions of the table *)

\* while (!try_insert(elem)) rehash(get_grow_size());
RECURSIVE InsertLoop(_, _, _)
\* after rehash(get_grow_size()) returned rh; r is what try_insert returned
InsertGrown(r, rh, calls) ==
    IF rh.end # "done"
    THEN [s |-> rh.s, end |-> rh.end, calls |-> Append(calls, rh.call), site |-> "none"]
    ELSE InsertLoop(rh.s, r.elem, Append(calls, rh.call))

\* after try_insert(elem) returned r
InsertTried(r, calls) ==
    IF r.s.hang THEN [s |-> r.s, end |-> "hang", calls |-> calls, site |-> r.site]
    ELSE IF r.ok THEN [s |-> r.s, end |-> "done", calls |-> calls, site |-> r.site]
    ELSE InsertGrown(r, rehash(r.s, get_grow_size(r.s)), calls)

InsertLoop(s, elem, calls) == InsertTried(try_insert(s, elem), calls)

\* num_elems >= num_buckets * _max_load_factor, with _max_load_factor = 0.9001f
LoadReached(s) == s.n * 10000 >= s.N * 9001

\* after the rehash of the load factor test, when grew says there was one
InsertFirst(rh, to_insert_elem, grew) ==
    IF rh.end # "done"
    THEN [s |-> rh.s, end |-> rh.end, calls |-> <<rh.call>>, site |-> "none"]
    ELSE InsertLoop(rh.s, to_insert_elem, IF grew THEN <<rh.call>> ELSE <<>>)

\* [s, end |-> "done" when the call returned, calls |-> the rehash calls made,
\*  site |-> the step of try_insert that placed the last element in hand]
insert(s, to_insert_elem) ==
    InsertFirst(IF LoadReached(s)
                THEN rehash(s, get_grow_size(s))
                ELSE [s |-> s, end |-> "done"],
                to_insert_elem, LoadReached(s))

\* after find_position returned elem_pos: [s, ret, pos]
Erased(s, elem_pos) ==
    IF elem_pos # SIZE_MAX
    THEN [s |-> [s EXCEPT !.n = s.n - 1], ret |-> 1, pos |-> elem_pos]
    ELSE [s |-> s, ret |-> 0, pos |-> SIZE_MAX]

Found(s, elem_pos) ==
    Erased(IF elem_pos # SIZE_MAX THEN Set_Empty(s, elem_pos) ELSE s, elem_pos)

\* hint is the argument the call of find_position leaves out
erase(s, elem, hint) == Found(s, find_position(s, elem, hint))

\* Map::operator[](key): [s, end, calls, inserted, pos |-> the bin whose value
\* the returned reference designates, *DATA::GetValue(key_pos)].  The second
\* find_position(key) leaves its hint out, as erase does: hint stands for it
operator_subscript(s, key, hint) ==
    IF find_position(s, key, "Expect_Positive") # SIZE_MAX
    THEN [s |-> s, end |-> "done", calls |-> <<>>, inserted |-> FALSE,
          pos |-> find_position(s, key, "Expect_Positive")]
    ELSE LET r == insert(s, key)
         IN  [s |-> r.s, end |-> r.end, calls |-> r.calls, inserted |-> TRUE,
              pos |-> IF r.end = "done" THEN find_position(r.s, key, hint)
                      ELSE SIZE_MAX]

\* Map::at(key): [thrown |-> std::out_of_range was thrown, pos |-> the bin
\* whose value is returned, s |-> the table afterwards]
map_at(s, key) ==
    [s |-> s,
     thrown |-> find_position(s, key, "Expect_Positive") = SIZE_MAX,
     pos |-> find_position(s, key, "Expect_Positive")]

\* a clear() that leaves out the loop over the last k-1 entry bins
clear_Untailed(s) == Clear([s EXCEPT !.n = 0], 0, s.N)

clear(s) == SetTailReversed(Clear([s EXCEPT !.n = 0], 0, s.N), 0)

\* [s, end, calls]
Reserved(rh) == [s |-> rh.s, end |-> rh.end, calls |-> <<rh.call>>, site |-> "none"]

reserve(s, new_capacity) ==
    IF new_capacity >= s.N + MIN_BUCKETS_COUNT
    THEN Reserved(rehash(s, new_capacity))
    ELSE [s |-> s, end |-> "done", calls |-> <<>>, site |-> "none"]

-----------------------------------------------------------------------------
(* The state machine *)

\* what a read outside the arrays may return: <<metadata word, key>>.
\* 0 is an empty bin; 263 (label 7, distance 0) and 265 (label 1, distance 1)
\* are occupied bins with short hash 1 that hold key 1.
NoGarbage == <<0, NoKey>>
Garbage == {NoGarbage, <<263, 1>>, <<265, 1>>}

\* the table of the current state, with g what the memory behind the arrays
\* holds when the operation starts and after every reallocation
Cur(g) == [m |-> [p \in 0 .. num_buckets + Slack - 1 |->
                    IF p < num_buckets THEN metadata[p] ELSE g[1]],
           d |-> [p \in 0 .. num_buckets + Slack - 1 |->
                    IF p < num_buckets THEN data[p] ELSE g[2]],
           n |-> num_elems, N |-> num_buckets,
           gm |-> g[1], gk |-> g[2], oob |-> FALSE, af |-> FALSE, dbg |-> FALSE,
           hang |-> FALSE]

\* one of the last k-1 entry bins has lost its reversed flag: its window
\* reaches beyond the arrays
Exposed ==
    \E p \in 0 .. num_buckets - 1 :
        p >= num_buckets - (NUM_ELEMS_BUCKET - 1) /\ ~BucketReversedOf(metadata[p])

\* the walk of a pass reaches the last k-1 bins of the new arrays and clears
\* their reversed flags (Clear(i, 1)) when the arrays grew by less than k-1
Exposes(calls) ==
    \E c \in DOMAIN calls : \E q \in DOMAIN calls[c].passes :
        calls[c].passes[q].new_N - calls[c].passes[q].old_N <= NUM_ELEMS_BUCKET - 2

\* the operation with result r, run on zeroed memory behind the arrays, can
\* have accessed that memory: only then do its contents matter
Reads(r) == Exposed \/ r.s.oob \/ Exposes(r.calls)

NoOp == [op |-> "none", key |-> NoKey, ret |-> 0, end |-> "done", calls |-> <<>>,
         site |-> "none", dbg |-> FALSE, from |-> 0]

\* CBG_IMPL(expected_num_elems): capacity max(2k-2, expected_num_elems), the
\* metadata zeroed and the last k-1 entry bins reversed; the keys are not
\* initialised.  CBG_IMPL(): no arrays, capacity 0.
Construct(k, capacity) ==
    /\ NUM_ELEMS_BUCKET = k
    /\ num_buckets = capacity
    /\ num_elems = 0
    /\ metadata = [p \in 0 .. capacity - 1 |-> IF p >= capacity - (k - 1) THEN 64 ELSE 0]
    /\ data = [p \in 0 .. capacity - 1 |-> NoKey]
    /\ labels = <<>>
    /\ pc = "ready"
    /\ oob = FALSE
    /\ assert_failed = FALSE
    /\ inserted = {}
    /\ expected = [x \in Keys |-> 0]
    /\ last = NoOp
    /\ nops = 0

Init ==
    \E k \in BucketSizes :
        \/ \E expected_num_elems \in 0 .. 2 * k - 2 + MaxInitExtra :
               Construct(k, Max(2 * k - 2, expected_num_elems))
        \/ Construct(k, 0)

\* the part of a step every operation shares
Commit(s, end) ==
    /\ metadata' = [p \in 0 .. s.N - 1 |-> s.m[p]]
    /\ data' = [p \in 0 .. s.N - 1 |-> s.d[p]]
    /\ UNCHANGED labels
    /\ num_elems' = s.n
    /\ num_buckets' = s.N
    /\ oob' = (oob \/ s.oob)
    /\ assert_failed' = (assert_failed \/ s.af)
    /\ pc' = CASE end = "done" -> "ready"
               [] end = "capped" -> "growing"
               [] end = "hang" -> "hang"
               [] OTHER -> "crashed"
    /\ nops' = nops + 1
    /\ UNCHANGED NUM_ELEMS_BUCKET

Enabled == pc = "ready"

\* every operation on a default-constructed container dereferences the null
\* arrays (find_position, clear) or walks down from bin SIZE_MAX (rehash)
NullArrays == num_buckets = 0

Crash(op, x) ==
    /\ Commit([Cur(NoGarbage) EXCEPT !.oob = TRUE], "crash")
    /\ last' = [NoOp EXCEPT !.op = op, !.key = x, !.end = "crash",
                             !.from = num_buckets]
    /\ UNCHANGED <<inserted, expected>>

\* the outcomes of insert(x) over what the memory behind the arrays can hold in
\* G: its contents matter only to a run that accesses it
RECURSIVE InsertRuns(_, _)
InsertSettled(x, G, rs) ==
    IF G = {NoGarbage} /\ \E r \in rs : Reads(r) THEN InsertRuns(x, Garbage) ELSE rs

InsertRuns(x, G) == InsertSettled(x, G, {insert(Cur(g), x) : g \in G})

Insert(x) ==
    /\ Enabled
    /\ \E r \in InsertRuns(x, {NoGarbage}) :
         /\ Commit(r.s, r.end)
         /\ last' = [op |-> "insert", key |-> x, ret |-> 0, end |-> r.end,
                     calls |-> r.calls, site |-> r.site, dbg |-> r.s.dbg,
                     from |-> num_buckets]
         /\ inserted' = IF r.end = "done" THEN inserted \cup {x} ELSE inserted
         /\ expected' = IF r.end = "done"
                        THEN [expected EXCEPT ![x] = @ + 1] ELSE expected

\* erase(x) calls find_position(elem) with one argument, which the two
\* parameter declaration does not accept: hint stands for the missing one
Erase(x) ==
    /\ Enabled
    /\ IF NullArrays THEN Crash("erase", x)
       ELSE \E g \in (IF Exposed THEN Garbage ELSE {NoGarbage}) :
            \E hint \in Hints :
            \E r \in {erase(Cur(g), x, hint)} :
             /\ Commit(r.s, "done")
             /\ last' = [NoOp EXCEPT !.op = "erase", !.key = x, !.ret = r.ret,
                                      !.from = num_buckets]
             /\ inserted' = inserted \ {x}
             /\ expected' = [expected EXCEPT ![x] = IF @ > 0 THEN @ - 1 ELSE 0]

ClearAll ==
    /\ Enabled
    /\ IF NullArrays THEN Crash("clear", NoKey)
       ELSE /\ Commit(clear(Cur(NoGarbage)), "done")
            /\ last' = [NoOp EXCEPT !.op = "clear", !.from = num_buckets]
            /\ inserted' = {}
            /\ expected' = [x \in Keys |-> 0]

\* the outcomes of reserve(new_capacity), as for insert
RECURSIVE ReserveRuns(_, _)
ReserveSettled(new_capacity, G, rs) ==
    IF G = {NoGarbage} /\ \E r \in rs : Reads(r) THEN ReserveRuns(new_capacity, Garbage) ELSE rs

ReserveRuns(new_capacity, G) ==
    ReserveSettled(new_capacity, G, {reserve(Cur(g), new_capacity) : g \in G})

Reserve(new_capacity) ==
    /\ Enabled
    /\ \E r \in ReserveRuns(new_capacity, {NoGarbage}) :
         /\ Commit(r.s, r.end)
         /\ last' = [NoOp EXCEPT !.op = "reserve", !.end = r.end, !.calls = r.calls,
                                 !.dbg = r.s.dbg, !.from = num_buckets]
         /\ UNCHANGED <<inserted, expected>>

ReserveSizes == {num_buckets + MIN_BUCKETS_COUNT + d : d \in -1 .. 1}

Next ==
    \/ \E x \in Keys : nops < MaxOps /\ Insert(x)
    \/ \E x \in Keys : nops < MaxOps /\ Erase(x)
    \/ nops < MaxOps /\ ClearAll
    \/ \E c \in ReserveSizes : nops < MaxOps /\ Reserve(c)

Spec == Init /\ [][Next]_vars

\* workloads of inserts and reserves on the instantiation with k = 3
InitGrow == Init /\ NUM_ELEMS_BUCKET = 3

NextGrow ==
    \/ \E x \in Keys : nops < MaxGrowOps /\ Insert(x)
    \/ \E c \in ReserveSizes : nops < MaxGrowOps /\ Reserve(c)

SpecGrow == InitGrow /\ [][NextGrow]_vars

\* workloads of inserts and erases on a table constructed with room to
\* spare, where the entry bins of the keys are not among the last k-1
InitRoomy ==
    \E k \in BucketSizes : \E c \in {MaxBuckets - 1, MaxBuckets} : Construct(k, c)

NextRoomy ==
    \/ \E x \in Keys : nops < MaxRoomyOps /\ Insert(x)
    \/ \E x \in Keys : nops < MaxRoomyOps /\ Erase(x)

SpecRoomy == InitRoomy /\ [][NextRoomy]_vars

\* get_grow_size() on its own, at the small capacities and at capacities of
\* a table of millions of bins, which the arrays of the model do not follow
GrowSizes ==
    (1 .. MaxBuckets) \cup {b + d : b \in {1747620, 16777200}, d \in 0 .. MaxSizeStep}

InitSize ==
    \E k \in BucketSizes : \E n \in GrowSizes :
        /\ NUM_ELEMS_BUCKET = k
        /\ num_buckets = n
        /\ num_elems = 0
        /\ metadata = <<>>
        /\ data = <<>>
        /\ labels = <<>>
        /\ pc = "sized"
        /\ oob = FALSE
        /\ assert_failed = FALSE
        /\ inserted = {}
        /\ expected = [x \in Keys |-> 0]
        /\ last = NoOp
        /\ nops = 0

GrowSize ==
    /\ pc = "sized" /\ nops = 0
    /\ last' = [NoOp EXCEPT !.op = "get_grow_size", !.from = num_buckets,
                            !.ret = get_grow_size([N |-> num_buckets])]
    /\ nops' = nops + 1
    /\ UNCHANGED <<NUM_ELEMS_BUCKET, num_buckets, num_elems, metadata, data, labels, pc,
                   oob, assert_failed, inserted, expected>>

SpecSize == InitSize /\ [][GrowSize]_vars

\* the metadata codec on its own: the four writers applied to the first bin
\* of Set_SoA<2, key> t(2) as constructed, with every label, distance and flag and with
\* hashes whose second byte is among the smallest or the largest
CodecHashes ==
    {sh * 256 + low : sh \in (0 .. MaxHashStep) \cup (255 - MaxHashStep .. 255),
                      low \in {0, 255}}

InitCodec == Construct(2, 2)

\* the table after a writer of the codec returned s; last keeps the call
CodecWrote(s, call) ==
    /\ metadata' = [p \in 0 .. s.N - 1 |-> s.m[p]]
    /\ last' = call
    /\ UNCHANGED <<NUM_ELEMS_BUCKET, num_buckets, num_elems, data, labels, pc, oob,
                   assert_failed, inserted, expected, nops>>

CodecUpdate ==
    \E distance_to_base \in 0 .. 3 : \E is_reverse_item \in BOOLEAN :
    \E label \in 0 .. L_MAX : \E hash \in CodecHashes :
        CodecWrote(Update_Bin_At(Cur(NoGarbage), 0, distance_to_base,
                                 is_reverse_item, label, hash),
                   [op |-> "Update_Bin_At", distance_to_base |-> distance_to_base,
                    is_reverse_item |-> is_reverse_item, label |-> label,
                    hash |-> hash])

CodecSetEmpty ==
    CodecWrote(Set_Empty(Cur(NoGarbage), 0), [op |-> "Set_Empty"])

CodecSetUnlucky ==
    CodecWrote(Set_Unlucky_Bucket(Cur(NoGarbage), 0), [op |-> "Set_Unlucky_Bucket"])

CodecSetReversed ==
    CodecWrote(Set_Bucket_Reversed(Cur(NoGarbage), 0), [op |-> "Set_Bucket_Reversed"])

NextCodec == CodecUpdate \/ CodecSetEmpty \/ CodecSetUnlucky \/ CodecSetReversed

SpecCodec == InitCodec /\ [][NextCodec]_vars

\* insert taken one step at a time: each iteration of the while (true) of
\* try_insert and each rehash(get_grow_size()) of insert is a step of its own,
\* and last keeps the locals of the iteration
InitSteps ==
    \E k \in BucketSizes : \E e \in 0 .. MaxInitExtra : Construct(k, 2 * k - 2 + e)

\* the table s is left by a step that goes on at position to
StepDone(s, to, call) ==
    /\ metadata' = [p \in 0 .. s.N - 1 |-> s.m[p]]
    /\ data' = [p \in 0 .. s.N - 1 |-> s.d[p]]
    /\ UNCHANGED labels
    /\ num_elems' = s.n
    /\ num_buckets' = s.N
    /\ oob' = (oob \/ s.oob)
    /\ assert_failed' = (assert_failed \/ s.af)
    /\ pc' = to
    /\ last' = call
    /\ UNCHANGED NUM_ELEMS_BUCKET

\* insert(x) up to its first call: the load factor test
BeginInsert(x) ==
    /\ pc = "ready"
    /\ StepDone(Cur(NoGarbage),
                IF LoadReached(Cur(NoGarbage)) THEN "rehash" ELSE "try_insert",
                [op |-> "insert", key |-> x, elem |-> x, ev |-> 0,
                 was |-> TableBag(Cur(NoGarbage)) (+) SeqBag(<<x>>)])
    /\ nops' = nops + 1
    /\ UNCHANGED <<inserted, expected>>

\* after one iteration of try_insert on the element in hand, with locals c,
\* returned r; was records the elements stored when try_insert was called
\* together with the element passed in, word and held the metadata word and
\* the element at the position written
Iterated(c, r) ==
    /\ StepDone(r.s,
                IF r.s.hang THEN "hang"
                ELSE IF r.again THEN "try_insert"
                ELSE IF r.ok THEN "ready" ELSE "rehash",
                [op |-> "try_insert", key |-> last.key, elem |-> r.elem, ev |-> r.ev,
                 c |-> c, ok |-> r.ok, again |-> r.again, site |-> r.site,
                 dbg |-> r.s.dbg, was |-> last.was, pos |-> r.pos,
                 word |-> IF r.pos = SIZE_MAX THEN 0 ELSE at(r.s, r.pos),
                 held |-> IF r.pos = SIZE_MAX THEN NoKey ELSE GetElem(r.s, r.pos)])
    /\ inserted' = IF r.ok THEN inserted \cup {last.key} ELSE inserted
    /\ expected' = IF r.ok THEN [expected EXCEPT ![last.key] = @ + 1] ELSE expected
    /\ UNCHANGED nops

\* one iteration of the while (true) of try_insert; g is what the memory
\* behind the arrays holds
Iterate ==
    /\ pc = "try_insert"
    /\ \E g \in (IF Exposed \/ oob THEN Garbage ELSE {NoGarbage}) :
         Iterated(Locals(Cur(g), last.elem, last.ev),
                  try_insert_step(Cur(g), last.elem, last.ev))

\* after rehash(get_grow_size()) of insert returned rh
Grown(rh) ==
    /\ StepDone(rh.s,
                CASE rh.end = "done" -> "try_insert"
                  [] rh.end = "capped" -> "growing"
                  [] rh.end = "hang" -> "hang"
                  [] OTHER -> "crashed",
                [op |-> "rehash", key |-> last.key, elem |-> last.elem, ev |-> 0,
                 end |-> rh.end, call |-> rh.call, dbg |-> rh.s.dbg,
                 was |-> TableBag(rh.s) (+) SeqBag(<<last.elem>>)])
    /\ UNCHANGED <<inserted, expected, nops>>

\* rehash(get_grow_size()) of insert, after the load factor test or after
\* try_insert returned false
Grow ==
    /\ pc = "rehash"
    /\ \E g \in (IF \/ Exposed \/ oob
                     \/ Exposes(<<rehash(Cur(NoGarbage),
                                         get_grow_size(Cur(NoGarbage))).call>>)
                  THEN Garbage ELSE {NoGarbage}) :
         Grown(rehash(Cur(g), get_grow_size(Cur(g))))

NextSteps ==
    \/ \E x \in Keys : nops < MaxStepOps /\ BeginInsert(x)
    \/ Iterate
    \/ Grow
    \/ \E x \in Keys : nops < MaxStepOps /\ Erase(x)

SpecSteps == InitSteps /\ [][NextSteps]_vars

\* inserts of distinct keys, each once and in any order, into Set_SoA<2, key>
\* t(6) or t(7)
InsertDistinct(x) ==
    /\ Enabled
    /\ x \notin inserted
    /\ \E r \in {insert(Cur(NoGarbage), x)} :
         /\ Commit(r.s, r.end)
         /\ last' = [op |-> "insert", key |-> x, ret |-> 0, end |-> r.end,
                     calls |-> r.calls, site |-> r.site, dbg |-> r.s.dbg,
                     from |-> num_buckets]
         /\ inserted' = IF r.end = "done" THEN inserted \cup {x} ELSE inserted
         /\ UNCHANGED expected

InitDistinct == \E c \in {6, 7} : Construct(2, c)

NextDistinct == \E x \in DistinctKeys : InsertDistinct(x)

SpecDistinct == InitDistinct /\ [][NextDistinct]_vars

\* the same steps for workloads of inserts on the instantiation with k = 3
NextStepsGrow ==
    \/ \E x \in Keys : nops < MaxGrowOps /\ BeginInsert(x)
    \/ Iterate
    \/ Grow

InitStepsGrow == InitSteps /\ NUM_ELEMS_BUCKET = 3

SpecStepsGrow == InitStepsGrow /\ [][NextStepsGrow]_vars

-----------------------------------------------------------------------------
(* The table of the current state, as the statements below read it *)

Bins == 0 .. num_buckets - 1

OccupiedBins == {p \in Bins : LabelOf(metadata[p]) # 0}

\* the element x is held by an occupied bin
Present(x) == \E p \in OccupiedBins : data[p] = x

\* the two entry bins of x: fastrange(h, N) and fastrange(rot64(h, 32), N)
Anchor1(x) == fastrange(hash_elem(x), num_buckets)
Anchor2(x) == fastrange(get_hash1(hash_elem(x)), num_buckets)

\* the k bins of the window of entry bin a under its current orientation
WindowOf(a) ==
    {a + (IF BucketReversedOf(metadata[a]) THEN 1 - NUM_ELEMS_BUCKET ELSE 0) + i :
        i \in 0 .. NUM_ELEMS_BUCKET - 1}

\* owner(b) = b + (k-1) * item_in_reversed_window(b) - distance(b)
Owner(b) ==
    b + (IF ItemReversedOf(metadata[b]) THEN NUM_ELEMS_BUCKET - 1 ELSE 0)
      - DistanceOf(metadata[b])

\* the public operations can be called: the last one returned
Ready == pc = "ready" /\ num_buckets > 0

\* what contains(x) can answer in the current state
Answers(x, hint) == {contains(Cur(g), x, hint) : g \in Garbage}

-----------------------------------------------------------------------------
(* Statements about the container *)

\* C1: once insert(x) has returned, and until erase(x) or clear() is called,
\* contains(x) reports x as present, under every lookup hint
C1_ContainsAfterInsert ==
    Ready => \A x \in inserted : \A hint \in Hints : Answers(x, hint) = {TRUE}

\* C2: contains(x) is true only if an occupied bin of window(a1(x)) or of
\* window(a2(x)) holds x
C2_ContainsOnlyStored ==
    Ready => \A x \in Keys : \A hint \in Hints :
        TRUE \in Answers(x, hint)
            => \E p \in OccupiedBins :
                   /\ data[p] = x
                   /\ p \in WindowOf(Anchor1(x)) \cup WindowOf(Anchor2(x))

\* C3: every rehash that returned, with all its retry passes, leaves in the
\* occupied bins the multiset of elements they held before it
C3_RehashPreservesElements ==
    last.end = "done" =>
        \A c \in DOMAIN last.calls : last.calls[c].after = last.calls[c].before

\* C4: after every operation that returned size() is the number of bins whose
\* label is not 0, and one call of insert increases size() by at most 1
C4_SizeCountsBins ==
    [][pc' = "ready" =>
          /\ num_elems' = Cardinality({p \in 0 .. num_buckets' - 1 :
                                          LabelOf(metadata'[p]) # 0})
          /\ last'.op = "insert" => num_elems' <= num_elems + 1]_vars

\* C5: an insert of a key that is already present leaves size() unchanged
C5_InsertIdempotent ==
    [][(last'.op = "insert" /\ pc' = "ready" /\ Present(last'.key))
          => num_elems' = num_elems]_vars

\* what erase(x) does to the current state, for every hint and every content
\* of the memory behind the arrays
EraseRuns(x) == {erase(Cur(g), x, hint) : g \in Garbage, hint \in Hints}

\* C6: erase(x) that finds x empties the bin holding it, keeps the two bucket
\* bits of that bin, decreases size() by 1 and returns 1; otherwise it returns
\* 0; no other bin and not the capacity changes
C6_EraseEffect ==
    Ready => \A x \in Keys : \A r \in EraseRuns(x) :
        /\ r.s.N = num_buckets
        /\ r.ret \in {0, 1}
        /\ r.ret = 1 =>
              /\ r.pos \in OccupiedBins
              /\ data[r.pos] = x
              /\ r.s.m[r.pos] = BucketBitsOf(metadata[r.pos])
              /\ r.s.n = num_elems - 1
        /\ r.ret = 0 => r.s.n = num_elems
        /\ \A p \in Bins : (r.ret = 0 \/ p # r.pos) => r.s.m[p] = metadata[p]
        /\ \A p \in Bins : r.s.d[p] = data[p]

\* C7: a call of insert returns: the loops of try_insert end, and a table
\* that holds nothing but copies of one key whose two entry bins coincide at
\* every capacity, and had at most 2k bins when insert of that key began to
\* grow it, does not grow past MaxBuckets bins without the key being placed
C7_InsertReturns ==
    /\ pc # "hang"
    /\ (/\ last.op = "insert"
        /\ get_hash1(hash_elem(last.key)) = hash_elem(last.key)
        /\ \A y \in Keys \ {last.key} : expected[y] = 0
        /\ last.calls # <<>>
        /\ last.calls[1].passes # <<>>
        /\ last.calls[1].passes[1].old_N <= 2 * NUM_ELEMS_BUCKET)
       => pc # "growing"

\* C8: the lookup hint does not change the answer of contains(x)
C8_HintIndependent ==
    Ready => \A x \in Keys : \A g \in Garbage : \A hint \in Hints :
        contains(Cur(g), x, hint) = contains(Cur(g), x, "Expect_Positive")

\* C9: every element is in the window of its primary entry bin, or the unlucky
\* bit of that entry bin is set and it is in the window of its secondary one
C9_UnluckyBit ==
    Ready => \A p \in OccupiedBins :
        \/ p \in WindowOf(Anchor1(data[p]))
        \/ /\ UnluckyOf(metadata[Anchor1(data[p])])
           /\ p \in WindowOf(Anchor2(data[p]))

\* C10: the owner computed from the metadata of an occupied bin is one of the
\* two entry bins of the element the bin holds
C10_OwnerIsAnchor ==
    Ready => \A p \in OccupiedBins :
        Owner(p) \in {Anchor1(data[p]), Anchor2(data[p])}

\* the labels of the occupied bins of the window of entry bin a
WindowLabels(a) ==
    {LabelOf(metadata[p]) : p \in WindowOf(a) \cap OccupiedBins}

\* C11: in every window that holds an occupied bin, the largest label
\* exceeds the smallest label of its occupied bins by at most 1
C11_WindowLabelSpread ==
    Ready => \A a \in Bins : \A l1, l2 \in WindowLabels(a) : l1 - l2 <= 1

\* C12: across one call of insert that does not rehash (its evictions,
\* hopscotch moves and bucket reversals), no bin's label decreases
C12_LabelMonotone ==
    [][(/\ pc = "ready" /\ pc' = "ready"
        /\ last'.op = "insert" /\ last'.calls = <<>>
        /\ num_buckets' = num_buckets)
       => \A p \in Bins : LabelOf(metadata'[p]) >= LabelOf(metadata[p])]_vars

\* C13: every metadata word has a label in 0..L_MAX and a distance in 0..k-1,
\* and every write through Update_Bin_At_Debug made by the last operation
\* kept distance < k, label <= L_MAX, position < capacity and label >= 1
C13_MetadataInRange ==
    /\ \A p \in Bins :
          /\ LabelOf(metadata[p]) \in 0 .. L_MAX
          /\ DistanceOf(metadata[p]) \in 0 .. NUM_ELEMS_BUCKET - 1
    /\ ~last.dbg

\* C14: the last k-1 entry bins are reversed whenever an operation can be
\* called, and no operation has read or written outside bins 0..N-1
C14_TailReversed ==
    Ready => ~Exposed /\ ~oob

\* C15: a call of erase, or of insert that does not rehash, never clears
\* bucket_is_reversed of a bin; it sets it only where try_insert placed the
\* element after a rearrangement, for an entry bin a >= k whose reversed
\* range a-k+1..a had an empty bin for every element of a that lay behind a
C15_ReversedFlagStable ==
    [][(/\ pc = "ready" /\ pc' = "ready"
        /\ last'.op \in {"insert", "erase"} /\ last'.calls = <<>>
        /\ num_buckets' = num_buckets)
       => \A a \in Bins :
            LET EmptyBelow == {p \in Bins : /\ p >= a + 1 - NUM_ELEMS_BUCKET /\ p <= a
                                           /\ LabelOf(metadata[p]) = 0}
                OwnedAbove == {p \in OccupiedBins : /\ p > a /\ p < a + NUM_ELEMS_BUCKET
                                                   /\ Owner(p) = a}
            IN  /\ BucketReversedOf(metadata[a]) => BucketReversedOf(metadata'[a])
                /\ (~BucketReversedOf(metadata[a]) /\ BucketReversedOf(metadata'[a]))
                   => /\ last'.op = "insert"
                      /\ last'.site \in {"primary_rearrange", "secondary_rearrange"}
                      /\ a >= NUM_ELEMS_BUCKET
                      /\ EmptyBelow # {}
                      /\ Cardinality(EmptyBelow) >= Cardinality(OwnedAbove)]_vars

\* an insert without rehash has just reversed an entry bin that is not one
\* of the last k-1
C15_Witness ==
    /\ pc = "ready"
    /\ last.op = "insert" /\ last.calls = <<>>
    /\ last.site \in {"primary_rearrange", "secondary_rearrange"}
    /\ \E a \in Bins : /\ a < num_buckets - (NUM_ELEMS_BUCKET - 1)
                       /\ BucketReversedOf(metadata[a])

C17_GrowSize ==
    LET grow_size(N) == Max(N + (2 * NUM_ELEMS_BUCKET - 2), (12 * N) \div 10)
    IN  /\ last.op = "get_grow_size" => last.ret = grow_size(last.from)
        /\ last.op = "insert" =>
              \A c \in DOMAIN last.calls :
                 last.calls[c].passes # <<>> =>
                    last.calls[c].requested = grow_size(last.calls[c].passes[1].old_N)
        /\ pc = "ready" => num_buckets >= last.from

\* C18: Map operator[](key) that returns inserts key when no occupied bin
\* holds it, so that size grows by exactly 1, and otherwise leaves size, the
\* capacity and every bin unchanged; in both cases the bin the returned
\* reference designates is an occupied bin of the table that holds key
C18_SubscriptEffect ==
    Ready => \A x \in Keys : \A g \in Garbage : \A hint \in Hints :
        LET r == operator_subscript(Cur(g), x, hint)
        IN  r.end = "done" =>
              /\ ~Present(x) => r.s.n = num_elems + 1
              /\ Present(x) =>
                    /\ r.s.n = num_elems
                    /\ r.s.N = num_buckets
                    /\ \A p \in Bins : r.s.m[p] = metadata[p] /\ r.s.d[p] = data[p]
              /\ r.pos \in 0 .. r.s.N - 1
              /\ LabelOf(r.s.m[r.pos]) # 0
              /\ r.s.d[r.pos] = x

\* C19: Map at(key) throws out_of_range when no occupied bin holds key, and
\* otherwise returns the value of an occupied bin of the table that holds
\* key; in both cases the table is left as it was
C19_AtEffect ==
    Ready => \A x \in Keys : \A g \in Garbage :
        LET r == map_at(Cur(g), x)
        IN  /\ r.s = Cur(g)
            /\ ~Present(x) => r.thrown
            /\ Present(x) =>
                  /\ ~r.thrown
                  /\ r.pos \in OccupiedBins
                  /\ data[r.pos] = x

\* C20: a call of Update_Bin_At with label 0..7 and distance 0..3 writes the
\* word whose bits 0..2 are the label, bits 3..4 the distance, bit 5
\* item_in_reversed_window and bits 8..15 the short hash, and the readers
\* return the values written; Update_Bin_At and Set_Empty leave bits 6
\* (bucket_is_reversed) and 7 (unlucky_bucket) as they were, Set_Empty leaves
\* the bin empty, and Set_Bucket_Reversed and Set_Unlucky_Bucket set their
\* bit and leave every other field as it was
C20_CodecRoundTrip ==
    [][LET old == metadata[0]
           c == last'
           w == metadata'[0]
       IN  /\ c.op = "Update_Bin_At" =>
                /\ LabelOf(w) = c.label
                /\ DistanceOf(w) = c.distance_to_base
                /\ ItemReversedOf(w) = c.is_reverse_item
                /\ HashOf(w) = ((c.hash \div 256) % 256) * 256
                /\ BucketReversedOf(w) = BucketReversedOf(old)
                /\ UnluckyOf(w) = UnluckyOf(old)
                /\ w = ((c.hash \div 256) % 256) * 256
                       + (IF UnluckyOf(old) THEN 128 ELSE 0)
                       + (IF BucketReversedOf(old) THEN 64 ELSE 0)
                       + (IF c.is_reverse_item THEN 32 ELSE 0)
                       + c.distance_to_base * 8 + c.label
           /\ c.op = "Set_Empty" =>
                /\ LabelOf(w) = 0
                /\ BucketReversedOf(w) = BucketReversedOf(old)
                /\ UnluckyOf(w) = UnluckyOf(old)
           /\ c.op = "Set_Bucket_Reversed" =>
                /\ BucketReversedOf(w)
                /\ w - BucketBitsOf(w) = old - BucketBitsOf(old)
                /\ UnluckyOf(w) = UnluckyOf(old)
           /\ c.op = "Set_Unlucky_Bucket" =>
                /\ UnluckyOf(w)
                /\ w - BucketBitsOf(w) = old - BucketBitsOf(old)
                /\ BucketReversedOf(w) = BucketReversedOf(old)
           /\ \A p \in Bins \ {0} : metadata'[p] = metadata[p]]_vars

\* every field at its largest value was written over a bin whose two bucket
\* bits were set, and read back
C20_Witness ==
    /\ last.op = "Update_Bin_At"
    /\ last.label = L_MAX /\ last.distance_to_base = 3 /\ last.is_reverse_item
    /\ Get_Hash(Cur(NoGarbage), 0) = 255 * 256
    /\ Is_Bucket_Reversed(Cur(NoGarbage), 0) /\ UnluckyOf(metadata[0])
    /\ metadata[0] = 65535

\* C21: the second metadata byte of every occupied bin is the top byte (bits
\* 56..63) of the hash that placed its element: of h when the bin is owned by
\* the primary entry bin of the element, of rot64(h, 32) when it is owned by
\* the secondary one
C21_ShortHashTopByte ==
    \A p \in OccupiedBins :
        LET h == hash_elem(data[p])
        IN  \/ /\ Owner(p) = Anchor1(data[p])
               /\ HashOf(metadata[p]) \div 256 = h[4] \div 256
            \/ /\ Owner(p) = Anchor2(data[p])
               /\ HashOf(metadata[p]) \div 256 = get_hash1(h)[4] \div 256

\* C22: when the operations so far were inserts of distinct keys, the entry
\* bins whose unlucky_bucket bit is set are at most as many as the stored keys
\* that lie in their secondary window (the bin is owned by the secondary entry
\* bin, which differs from the primary one or whose short hash the bin holds)
C22_UnluckyAtMostSecondary ==
    (/\ Ready
     /\ \A x \in Keys : expected[x] = (IF x \in inserted THEN 1 ELSE 0)
     /\ Cardinality(inserted) = nops)
    => Cardinality({p \in Bins : UnluckyOf(metadata[p])})
         <= Cardinality({p \in OccupiedBins :
               /\ Owner(p) = Anchor2(data[p])
               /\ \/ Anchor2(data[p]) # Anchor1(data[p])
                  \/ HashOf(metadata[p]) = ShortHash(get_hash1(hash_elem(data[p])))})

\* C23: a call of try_insert returns: an iteration that evicts overwrites one
\* bin of the table, whose label was below L_MAX, with a larger label that is
\* at most L_MAX, and leaves the labels of all other bins as they were; an
\* iteration that places the element after a rearrangement leaves the labels
\* of the stored elements as they were; the iteration that finds
\* min(min1, min2) >= L_MAX and no room returns false; and one call makes at
\* most L_MAX * N evictions
C23_TryInsertTerminates ==
    /\ pc # "hang"
    /\ last.op = "try_insert" =>
         LET c == last.c
             victim_pos == IF c.min1 <= c.min2 THEN c.pos1 ELSE c.pos2
             LabelsOf(m, d, n) ==
                 {<<d[p], LabelOf(m[p]),
                    Cardinality({q \in 0 .. n - 1 :
                                   d[q] = d[p] /\ LabelOf(m[q]) = LabelOf(m[p])})>> :
                  p \in {q \in 0 .. n - 1 : LabelOf(m[q]) # 0}}
         IN  /\ last.again =>
                  /\ victim_pos \in Bins
                  /\ LabelOf(c.s.m[victim_pos]) < L_MAX
                  /\ LabelOf(metadata[victim_pos]) > LabelOf(c.s.m[victim_pos])
                  /\ LabelOf(metadata[victim_pos]) <= L_MAX
                  /\ \A p \in Bins \ {victim_pos} :
                        LabelOf(metadata[p]) = LabelOf(c.s.m[p])
             /\ last.site \in {"primary_rearrange", "secondary_rearrange"} =>
                  \A t \in LabelsOf(c.s.m, c.s.d, c.s.N) :
                     \E u \in LabelsOf(metadata, data, num_buckets) :
                        u[1] = t[1] /\ u[2] = t[2] /\ u[3] >= t[3]
             /\ (Min(c.min1, c.min2) >= L_MAX /\ last.site = "none") =>
                  ~last.again /\ ~last.ok
             /\ last.ev <= L_MAX * num_buckets

\* C24: try_insert returns false only from an iteration whose scan found no
\* empty bin in either window, whose two rearrangements found nothing and
\* with min(min1, min2) >= L_MAX; size is then what it was when try_insert
\* was called, and the stored elements together with the element handed back
\* are the elements stored at the call together with the element passed in
C24_FailureLosesNothing ==
    (last.op = "try_insert" /\ ~last.ok /\ ~last.again /\ pc # "hang") =>
        LET c == last.c
            now == [N |-> num_buckets, m |-> metadata, d |-> data]
        IN  /\ c.min1 # 0 /\ c.min2 # 0
            /\ Min(c.min1, c.min2) >= L_MAX
            /\ Find_Empty_Pos_Hopscotch(c.s, c.bucket1_pos, c.bucket1_init).pos
                 = SIZE_MAX
            /\ Find_Empty_Pos_Hopscotch(c.s, c.bucket2_pos, c.bucket2_init).pos
                 = SIZE_MAX
            /\ num_buckets = c.s.N
            /\ num_elems = c.s.n
            /\ TableBag(now) (+) SeqBag(<<last.elem>>) = last.was

\* where a bin holds what: <<element, owner, short hash, label>> of bin p under
\* the metadata m and the elements d
PlacementAt(m, d, p) ==
    <<d[p], p + (IF ItemReversedOf(m[p]) THEN NUM_ELEMS_BUCKET - 1 ELSE 0) - DistanceOf(m[p]),
      HashOf(m[p]), LabelOf(m[p])>>

\* the placements the last iteration of try_insert added: those more bins of
\* the table have now than had when the iteration began
NewPlacements ==
    LET pre == last.c.s
        Had(t) == {p \in Bins : LabelOf(pre.m[p]) # 0 /\ PlacementAt(pre.m, pre.d, p) = t}
        Has(t) == {p \in OccupiedBins : PlacementAt(metadata, data, p) = t}
    IN  {t \in {PlacementAt(metadata, data, p) : p \in OccupiedBins} :
           Cardinality(Has(t)) > Cardinality(Had(t))}

\* the placement t is one of window 1 (of window 2) of the iteration's element
InWindow1(t) ==
    t[1] = last.c.elem /\ t[2] = last.c.bucket1_pos /\ t[3] = ShortHash(last.c.hash0)

InWindow2(t) ==
    t[1] = last.c.elem /\ t[2] = last.c.bucket2_pos /\ t[3] = ShortHash(last.c.hash1)

\* the last step was an iteration of try_insert that wrote the element
WroteElem == last.op = "try_insert" /\ (last.ok \/ last.again) /\ pc # "hang"

\* the last iteration wrote the element in one of the steps of window 1:
\* primary empty, primary rearrange, eviction in window 1
WroteWindow1 ==
    \/ last.site \in {"primary_empty", "primary_rearrange"}
    \/ last.again /\ last.c.min1 <= last.c.min2

\* C25: an iteration that writes the element in a step of window 2 (secondary
\* empty, secondary rearrange, eviction in window 2) does so only when the
\* scan found no empty bin in window 1 and the rearrangement of window 1
\* found nothing, and the unlucky bit of a1 is set afterwards; a step of
\* window 1 leaves the unlucky bit of a1 as it was; no other bin's unlucky
\* bit changes
C25_SecondaryAfterPrimary ==
    WroteElem =>
        LET c == last.c
        IN  /\ ~WroteWindow1 =>
                 /\ c.min1 # 0
                 /\ Find_Empty_Pos_Hopscotch(c.s, c.bucket1_pos, c.bucket1_init).pos
                      = SIZE_MAX
                 /\ UnluckyOf(metadata[c.bucket1_pos])
            /\ WroteWindow1 =>
                 UnluckyOf(metadata[c.bucket1_pos]) = UnluckyOf(c.s.m[c.bucket1_pos])
            /\ \A p \in Bins \ {c.bucket1_pos} :
                 UnluckyOf(metadata[p]) = UnluckyOf(c.s.m[p])

\* a write into window 2 that set the unlucky bit of a1, which was clear
C25_Witness ==
    /\ WroteElem /\ ~WroteWindow1
    /\ \E t \in NewPlacements : InWindow2(t) /\ ~InWindow1(t)
    /\ ~UnluckyOf(last.c.s.m[last.c.bucket1_pos])
    /\ UnluckyOf(metadata[last.c.bucket1_pos])

\* the smallest label among the k bins from bucket_init on, in the table s
WindowMin(s, bucket_init) ==
    CHOOSE l \in 0 .. L_MAX :
        /\ \E i \in 0 .. NUM_ELEMS_BUCKET - 1 : Get_Label(s, bucket_init + i) = l
        /\ \A i \in 0 .. NUM_ELEMS_BUCKET - 1 : Get_Label(s, bucket_init + i) >= l

\* the last step was an iteration of try_insert that evicted
EvictedNow == last.op = "try_insert" /\ last.again /\ pc # "hang"

\* the position of the victim by the rule: p1 if min1 <= min2, else p2
victim_pos == IF last.c.min1 <= last.c.min2 THEN last.c.pos1 ELSE last.c.pos2

\* C26: an iteration evicts only when the scan found no empty bin, both
\* rearrangements found nothing and min(min1, min2) < L_MAX, and in that
\* case it does evict; min1 and min2 are the smallest labels of the two
\* windows and p1, p2 positions of the windows holding them; the eviction
\* writes at p1 if min1 <= min2 and at p2 otherwise; afterwards that position
\* holds the element that was in hand, the element in hand is the one the
\* position held, and every other bin holds what it held
C26_VictimChoice ==
    (last.op = "try_insert" /\ pc # "hang") =>
        LET c == last.c
            nothing == /\ c.min1 # 0 /\ c.min2 # 0
                       /\ Find_Empty_Pos_Hopscotch(c.s, c.bucket1_pos, c.bucket1_init).pos
                            = SIZE_MAX
                       /\ Find_Empty_Pos_Hopscotch(c.s, c.bucket2_pos, c.bucket2_init).pos
                            = SIZE_MAX
        IN  /\ last.again <=> (nothing /\ Min(c.min1, c.min2) < L_MAX)
            /\ last.again =>
                 /\ c.min1 = WindowMin(c.s, c.bucket1_init)
                 /\ c.min2 = WindowMin(c.s, c.bucket2_init)
                 /\ c.pos1 \in c.bucket1_init .. c.bucket1_init + NUM_ELEMS_BUCKET - 1
                 /\ c.pos2 \in c.bucket2_init .. c.bucket2_init + NUM_ELEMS_BUCKET - 1
                 /\ Get_Label(c.s, c.pos1) = c.min1
                 /\ Get_Label(c.s, c.pos2) = c.min2
                 /\ last.pos = victim_pos
                 /\ last.held = c.elem
                 /\ LabelOf(last.word) # 0
                 /\ last.elem = GetElem(c.s, victim_pos)
                 /\ victim_pos \in Bins =>
                      data[victim_pos] = c.elem /\ metadata[victim_pos] = last.word
                 /\ \A p \in Bins \ {victim_pos} : data[p] = c.s.d[p]

\* an eviction on a tie of the minima held by bins of different windows: the
\* bin of window 1 is taken
C26_Witness ==
    /\ EvictedNow
    /\ last.c.min1 = last.c.min2
    /\ last.c.pos1 # last.c.pos2
    /\ last.pos = last.c.pos1
    /\ data[last.pos] = last.c.elem
    /\ last.elem # last.c.elem

\* C27: the word an iteration writes with the element, at any of the six
\* sites, carries the label min(m + 1, L_MAX) with m the smallest label the
\* other window had when the iteration began (min2 for the steps of
\* window 1, min1 for those of window 2), the short hash of the window's hash
\* and the place of the position in the window of the step; a position
\* inside the table holds that word and the element afterwards
C27_LabelFromOtherWindow ==
    WroteElem =>
        LET c == last.c
            m == IF WroteWindow1 THEN WindowMin(c.s, c.bucket2_init)
                 ELSE WindowMin(c.s, c.bucket1_init)
            a == IF WroteWindow1 THEN c.bucket1_pos ELSE c.bucket2_pos
            reversed == BucketReversedOf(metadata[a])
            init == a + (IF reversed THEN 1 - NUM_ELEMS_BUCKET ELSE 0)
        IN  /\ m = (IF WroteWindow1 THEN c.min2 ELSE c.min1)
            /\ LabelOf(last.word) = Min(m + 1, L_MAX)
            /\ HashOf(last.word) = ShortHash(IF WroteWindow1 THEN c.hash0 ELSE c.hash1)
            /\ last.pos \in init .. init + NUM_ELEMS_BUCKET - 1
            /\ DistanceOf(last.word) = last.pos - init
            /\ ItemReversedOf(last.word) = reversed
            /\ last.held = c.elem
            /\ last.pos \in Bins =>
                 metadata[last.pos] = last.word /\ data[last.pos] = c.elem

\* the element was written after a rearrangement of window 2, with a label
\* below L_MAX
C27_Witness ==
    /\ WroteElem
    /\ last.site = "secondary_rearrange"
    /\ LabelOf(last.word) = last.c.min1 + 1
    /\ LabelOf(last.word) < L_MAX

\* the calls of Find_Empty_Pos_Hopscotch the last iteration of try_insert
\* made, as <<table before the call, bucket_pos, bucket_init>>: the one for
\* window 1 when the scan found no empty bin there, and the one for window 2
\* when that call found nothing and the scan found no empty bin in window 2
RearrangeCalls ==
    IF last.op # "try_insert" \/ pc = "hang" \/ last.c.min1 = 0 THEN {}
    ELSE LET c == last.c
             f1 == Find_Empty_Pos_Hopscotch(c.s, c.bucket1_pos, c.bucket1_init)
         IN  {<<c.s, c.bucket1_pos, c.bucket1_init>>}
             \cup (IF f1.pos = SIZE_MAX /\ c.min2 # 0
                   THEN {<<f1.s, c.bucket2_pos, c.bucket2_init>>} ELSE {})

\* C28: a call of Find_Empty_Pos_Hopscotch that returns SIZE_MAX leaves every
\* metadata word and every element as it was, so that a new scan of the two
\* windows gives the minima and positions scanned before the call; an
\* iteration in which every call made returned SIZE_MAX changes at most the
\* bin it writes the element into (the empty bin of window 2 or the victim's
\* bin) and the unlucky bit of a1
C28_NotFoundChangesNothing ==
    /\ \A call \in RearrangeCalls :
         LET f == Find_Empty_Pos_Hopscotch(call[1], call[2], call[3])
         IN  f.pos = SIZE_MAX =>
               /\ f.s.m = call[1].m
               /\ f.s.d = call[1].d
               /\ f.s.n = call[1].n
               /\ ScanWindow(f.s, last.c.bucket1_init) = <<last.c.min1, last.c.pos1>>
               /\ ScanWindow(f.s, last.c.bucket2_init) = <<last.c.min2, last.c.pos2>>
    /\ (/\ RearrangeCalls # {}
        /\ last.site \notin {"primary_rearrange", "secondary_rearrange"}) =>
          \A p \in Bins :
             \/ metadata[p] = last.c.s.m[p] /\ data[p] = last.c.s.d[p]
             \/ last.again /\ p = victim_pos
             \/ last.site = "secondary_empty" /\ p = last.c.pos2
             \/ /\ p = last.c.bucket1_pos
                /\ metadata[p] = Set_Unlucky_Bucket(last.c.s, p).m[p]
                /\ data[p] = last.c.s.d[p]

\* two different calls returned SIZE_MAX, with window 1 far enough from bin 0
\* for the reversal of neighbours to be tried
C28_Witness ==
    /\ Cardinality(RearrangeCalls) = 2
    /\ \A call \in RearrangeCalls :
         Find_Empty_Pos_Hopscotch(call[1], call[2], call[3]).pos = SIZE_MAX
    /\ last.c.bucket1_init >= 2 * NUM_ELEMS_BUCKET

\* the placements of the table s outside bin p, each with the number of bins
\* holding it
PlacementsBut(s, p) ==
    LET bins == Occupied(s) \ {p}
        held == {PlacementAt(s.m, s.d, q) : q \in bins}
    IN  [t \in held |-> Cardinality({q \in bins : PlacementAt(s.m, s.d, q) = t})]

\* C29: a call of Find_Empty_Pos_Hopscotch that returns a position p returns
\* a bin of the table inside the window the anchor has after the call, and
\* the bins other than p hold after the call the elements stored before it,
\* each with the owner, the short hash and the label it had: what bin p still
\* holds is stored in another bin too; the iteration then writes into bin p
\* and, but for the unlucky bit of a1, into no other bin
C29_FoundPosition ==
    \A call \in RearrangeCalls :
        LET f == Find_Empty_Pos_Hopscotch(call[1], call[2], call[3])
            init == WindowInit(f.s, call[2])
        IN  f.pos # SIZE_MAX =>
              /\ f.pos \in init .. init + NUM_ELEMS_BUCKET - 1
              /\ f.pos \in Bins
              /\ PlacementsBut(f.s, f.pos) = PlacementsBut(call[1], num_buckets)
              /\ \A p \in Bins \ {f.pos} :
                   /\ data[p] = f.s.d[p]
                   /\ \/ metadata[p] = f.s.m[p]
                      \/ /\ p = last.c.bucket1_pos
                         /\ metadata[p] = Set_Unlucky_Bucket(f.s, p).m[p]

\* the reversals the calls of Find_Empty_Pos_Hopscotch of the last iteration
\* made, as <<table before the call, bucket reversed, bucket_pos of the call>>:
\* the call's own bucket (first part), else the bucket owning the first bin
\* of the window whose bucket can be reversed (second part)
Reversals ==
    {<<call[1], call[2], call[2]>> : call \in {c \in RearrangeCalls : CanReverseThis(c[1], c[2])}}
    \cup
    {<<call[1],
       LET i == CHOOSE i \in 0 .. NUM_ELEMS_BUCKET - 1 :
                  /\ CanReverseElem(call[1], call[2], call[3], i)
                  /\ \A h \in 0 .. i - 1 : ~CanReverseElem(call[1], call[2], call[3], h)
       IN  call[3] + i - Distance_to_Entry_Bin(call[1], call[3] + i),
       call[2]>> :
       call \in {c \in RearrangeCalls :
                   /\ ~CanReverseThis(c[1], c[2])
                   /\ UGe(c[3], 2 * NUM_ELEMS_BUCKET)
                   /\ \E i \in 0 .. NUM_ELEMS_BUCKET - 1 : CanReverseElem(c[1], c[2], c[3], i)}}

\* C30: the reversal of a bucket a leaves the elements owned by a, each with
\* its label and short hash, in bins of [a-k+1, a] that were empty or are
\* bin a itself, marked item_in_reversed_window with distance
\* position - (a-k+1), and changes no other bin but for bucket_is_reversed
\* of a; the branch that rewrites a bin in place is taken only for bin a;
\* the window served then holds an empty bin, the call returns an empty
\* position of that window and the iteration writes the element there
C30_ReverseBucket ==
    \A rev \in Reversals :
        LET s == [rev[1] EXCEPT !.af = FALSE]
            a == rev[2]
            r == IF Count_Elems_In_Bucket_Non_Reversed(s, a) # 0 \/ a # rev[3]
                 THEN Reverse_Bucket(s, a) ELSE Set_Bucket_Reversed(s, a)
            f == Find_Empty_Pos_Hopscotch(s, rev[3], WindowInit(s, rev[3]))
            all == DOMAIN s.m
            Was == {p \in all : Belong_to_Bucket(s, p) = a}
            Now == {p \in all : Belong_to_Bucket(r, p) = a}
            What(t, p) == <<GetElem(t, p), Get_Label(t, p), Get_Hash(t, p)>>
            init == WindowInit(r, rev[3])
        IN  /\ ~r.af
            /\ Is_Bucket_Reversed(r, a)
            /\ \A p \in Now :
                 /\ p \in a - NUM_ELEMS_BUCKET + 1 .. a
                 /\ Is_Item_In_Reverse_Bucket(r, p)
                 /\ Distance_to_Entry_Bin(r, p) = p - (a - NUM_ELEMS_BUCKET + 1)
                 /\ Is_Empty(s, p) \/ p = a
                 /\ Cardinality({q \in Now : What(r, q) = What(r, p)})
                      = Cardinality({q \in Was : What(s, q) = What(r, p)})
            /\ Cardinality(Now) = Cardinality(Was)
            /\ \A p \in all \ (Was \cup Now) :
                 r.m[p] = Set_Bucket_Reversed(s, a).m[p] /\ r.d[p] = s.d[p]
            /\ \A p \in Was \ Now : Is_Empty(r, p)
            /\ Calculate_Minimum(r, init)[1] = 0
            /\ f.s.m = r.m /\ f.s.d = r.d
            /\ f.pos \in init .. init + NUM_ELEMS_BUCKET - 1
            /\ Is_Empty(r, f.pos)
            /\ last.pos = f.pos
            /\ last.held = last.c.elem

\* the reversal of a neighbour's bucket that moved at least two elements, one
\* of them out of the window served
C30_Witness ==
    \E rev \in Reversals :
        /\ rev[2] # rev[3]
        /\ Cardinality({p \in Bins : Belong_to_Bucket(rev[1], p) = rev[2]}) >= 2
        /\ last.site \in {"primary_rearrange", "secondary_rearrange"}

\* the table s with the memory behind the arrays holding g
Behind(s, g) ==
    [s EXCEPT !.m = [p \in DOMAIN s.m |-> IF p < s.N THEN s.m[p] ELSE g[1]],
              !.d = [p \in DOMAIN s.d |-> IF p < s.N THEN s.d[p] ELSE g[2]],
              !.gm = g[1], !.gk = g[2]]

\* the hopscotch parts the calls of Find_Empty_Pos_Hopscotch of the last
\* iteration ran, as <<table at the start of the part, bucket_init>>: those
\* of the calls in which no bucket was reversed
HopscotchCalls ==
    LET Calls == IF last.op # "try_insert" \/ last.c.min1 = 0 THEN {}
                 ELSE LET c == last.c
                          f1 == Find_Empty_Pos_Hopscotch(c.s, c.bucket1_pos, c.bucket1_init)
                      IN  {<<c.s, c.bucket1_pos, c.bucket1_init>>}
                          \cup (IF f1.pos = SIZE_MAX /\ c.min2 # 0
                                THEN {<<f1.s, c.bucket2_pos, c.bucket2_init>>} ELSE {})
    IN  {<<call[1], call[3]>> :
           call \in {c \in Calls :
                       /\ ~CanReverseThis(c[1], c[2])
                       /\ UGe(c[3], 2 * NUM_ELEMS_BUCKET) =>
                            ReverseElems(c[1], c[2], c[3], 0).pos = SIZE_MAX}}

HopKeys == {1, 6, 8}

InitStepsHop == \E c \in {3, 4} : Construct(2, c)

NextStepsHop ==
    \/ \E x \in HopKeys : nops < MaxStepOps /\ BeginInsert(x)
    \/ Iterate
    \/ Grow

SpecStepsHop == InitStepsHop /\ [][NextStepsHop]_vars

-----------------------------------------------------------------------------
(* The walk of a pass of rehash *)

\* the passes of the rehash the last step ran
WalkPasses ==
    IF last.op = "rehash"
    THEN {last.call.passes[q] : q \in DOMAIN last.call.passes}
    ELSE {}

\* <<table, secondary_tmp>> of the walk that started at bin i, before it
\* reads bin j
RECURSIVE WalkBefore(_, _, _)
WalkBefore(w, i, j) ==
    IF i > j THEN WalkBefore(WalkBin(w[1], i, w[2]), i - 1, j) ELSE w

\* C32: in every pass, the walk over the old bins old_N-1 .. 0 leaves each bin
\* it has read empty and changes no bin below the one it reads; an element
\* it does not append to secondary_tmp goes to a bin that was empty, inside
\* the primary window of the element in the new table, a window that starts
\* above the bin read, with label 1, its distance in that window and the
\* orientation of the bucket, and num_elems counts it; bin 0 is always
\* appended; after the walk an old bin is empty or holds, with label 1, an
\* element that the old table held in a lower bin
C32_WalkOrder ==
    \A p \in WalkPasses :
        LET start == <<GrowArrays(p.from, p.new_N), p.held>>
            end == WalkFirst(WalkLoop(start, p.old_N - 1))
        IN  /\ WalkBefore(start, p.old_N - 1, 0) = WalkLoop(start, p.old_N - 1)
            /\ \A i \in 0 .. p.old_N - 1 :
                 LET w == WalkBefore(start, p.old_N - 1, i)
                     b == w[1]
                     a == IF i = 0 THEN WalkFirst(w) ELSE WalkBin(b, i, w[2])
                     Changed == {q \in DOMAIN b.m :
                                   a[1].m[q] # b.m[q] \/ a[1].d[q] # b.d[q]}
                     x == b.d[i]
                     bucket1_pos == fastrange(hash_elem(x), p.new_N)
                     reversed == BucketReversedOf(b.m[bucket1_pos])
                     init == bucket1_pos - (IF reversed THEN NUM_ELEMS_BUCKET - 1 ELSE 0)
                 IN  /\ LabelOf(a[1].m[i]) = 0
                     /\ Changed \cap (0 .. i - 1) = {}
                     /\ IF LabelOf(b.m[i]) = 0
                        THEN a[2] = w[2] /\ Changed \subseteq {i} /\ a[1].n = b.n
                        ELSE \/ /\ a[2] = Append(w[2], x)
                                /\ Changed \subseteq {i}
                                /\ a[1].n = b.n
                             \/ /\ a[2] = w[2]
                                /\ i > 0
                                /\ init > i
                                /\ a[1].n = b.n + 1
                                /\ \E q \in init .. init + NUM_ELEMS_BUCKET - 1 :
                                     /\ q \in DOMAIN b.m
                                     /\ LabelOf(b.m[q]) = 0
                                     /\ Changed \subseteq {i, q}
                                     /\ a[1].d[q] = x
                                     /\ LabelOf(a[1].m[q]) = 1
                                     /\ DistanceOf(a[1].m[q]) = q - init
                                     /\ ItemReversedOf(a[1].m[q]) = reversed
            /\ \A q \in 0 .. p.old_N - 1 :
                 \/ LabelOf(end[1].m[q]) = 0
                 \/ /\ LabelOf(end[1].m[q]) = 1
                    /\ \E i \in 0 .. q - 1 :
                         LabelOf(p.from.m[i]) # 0 /\ p.from.d[i] = end[1].d[q]

\* a retry pass whose walk moved an element to its new window and appended
\* another to secondary_tmp
C32_Witness ==
    /\ last.op = "rehash"
    /\ \E q \in DOMAIN last.call.passes :
         LET p == last.call.passes[q]
             w == WalkLoop(<<GrowArrays(p.from, p.new_N), p.held>>, p.old_N - 1)
         IN  q >= 2 /\ w[1].n >= 1 /\ Len(w[2]) > Len(p.held)

\* C33: every pass of rehash, the first and each retry, runs with
\* new_num_buckets >= num_buckets + MIN_BUCKETS_COUNT, and the last k-1 bins
\* of the new arrays, the ones it marks reversed, are not old bins
C33_EveryPassGrows ==
    \A p \in WalkPasses :
        /\ p.new_N >= p.old_N + MIN_BUCKETS_COUNT
        /\ p.new_N - (NUM_ELEMS_BUCKET - 1) >= p.old_N

-----------------------------------------------------------------------------
(* An element whose two entry bins coincide *)

\* the last step was an iteration of try_insert on an element with
\* bucket1_pos = bucket2_pos
SameBucket == last.op = "try_insert" /\ last.c.bucket1_pos = last.c.bucket2_pos

\* C34: in an iteration on an element whose entry bins coincide, the two
\* scans are over the same window and give the same minimum and position;
\* the element is written into that window (into an empty bin, a bin a
\* rearrangement for window 1 freed, or the bin of the victim) with label
\* min(min1 + 1, L_MAX), evicting in place; the unlucky bit of the entry bin
\* stays as it was; the iteration does not hang, and it returns false exactly
\* when nothing was found and the minimum of the window is L_MAX
C34_SameBucket ==
    SameBucket =>
        LET c == last.c
            f == Find_Empty_Pos_Hopscotch(c.s, c.bucket1_pos, c.bucket1_init)
            a1 == c.bucket1_pos
        IN  /\ c.bucket1_init = c.bucket2_init
            /\ c.min1 = c.min2
            /\ c.pos1 = c.pos2
            /\ c.min1 = WindowMin(c.s, c.bucket1_init)
            /\ c.ev < MaxEvictions => pc # "hang"
            /\ pc # "hang" =>
                 /\ last.site \in {"primary_empty", "primary_rearrange", "none"}
                 /\ UnluckyOf(at(Cur(NoGarbage), a1)) = UnluckyOf(at(c.s, a1))
                 /\ (~last.ok /\ ~last.again) <=>
                        (c.min1 >= L_MAX /\ f.pos = SIZE_MAX)
                 /\ last.again <=> (0 < c.min1 /\ c.min1 < L_MAX /\ f.pos = SIZE_MAX)
                 /\ (last.ok \/ last.again) =>
                      LET init == WindowInit(Cur(NoGarbage), a1)
                      IN  /\ last.pos \in init .. init + NUM_ELEMS_BUCKET - 1
                          /\ last.held = c.elem
                          /\ LabelOf(last.word) = Min(c.min1 + 1, L_MAX)
                          /\ DistanceOf(last.word) = last.pos - init
                 /\ last.again =>
                      /\ last.pos = c.pos1
                      /\ last.elem = GetElem(c.s, c.pos1)
                      /\ WindowInit(Cur(NoGarbage), a1) = c.bucket1_init

\* an eviction in place by an element whose entry bins coincide although its
\* two hashes differ
C34_Witness ==
    /\ SameBucket
    /\ pc # "hang"
    /\ last.again
    /\ last.c.hash0 # last.c.hash1
    /\ last.held = last.c.elem

-----------------------------------------------------------------------------
(* Orientation of the stored elements *)

\* C35: every occupied bin b has an owner that is a bin of the table, with
\* item_in_reversed_window(b) = bucket_is_reversed(owner(b)), so that b is one
\* of the k bins of the window of its owner under the orientation bit that
\* find reads
C35_ItemOrientation ==
    \A b \in OccupiedBins :
        /\ Owner(b) \in Bins
        /\ ItemReversedOf(metadata[b]) = BucketReversedOf(metadata[Owner(b)])
        /\ b \in WindowOf(Owner(b))

\* after an insert that ran rehash: a table holding an element in a reversed
\* window and, away from its entry bin, an element in a window that is not
\* reversed
C35_Witness ==
    /\ pc = "ready"
    /\ last.op = "insert"
    /\ last.calls # <<>>
    /\ num_buckets > last.from
    /\ \E b \in OccupiedBins :
         ItemReversedOf(metadata[b]) /\ DistanceOf(metadata[b]) < NUM_ELEMS_BUCKET - 1
    /\ \E b \in OccupiedBins :
         ~ItemReversedOf(metadata[b]) /\ DistanceOf(metadata[b]) > 0

-----------------------------------------------------------------------------
(* The short hash prefilter *)

\* what the memory behind the arrays can hold where a lookup can read it
LookupGarbage == IF Exposed THEN Garbage ELSE {NoGarbage}

\* C36: between operations, the lookup with the short hash prefilter and the
\* lookup without it return the same position for every key
C36_PrefilterSamePosition ==
    Ready =>
        \A x \in Keys : \A g \in LookupGarbage :
            find_position_negative(Cur(g), x) = find_position_negative_no_metadata(Cur(g), x)

-----------------------------------------------------------------------------
(* The default constructed table *)

\* C37: an insert into a table of capacity 0 returns with at least 2k-2 bins
\* and the element stored, having accessed no position outside the arrays
C37_DefaultInsert ==
    (last.op = "insert" /\ last.from = 0) =>
        /\ last.end = "done"
        /\ pc = "ready"
        /\ num_buckets >= 2 * NUM_ELEMS_BUCKET - 2
        /\ Present(last.key)
        /\ ~oob

-----------------------------------------------------------------------------
(* The reference implementation of LSA_max on blocked buckets:               *)
(* Cuckoo_1t<NUM_ELEMS_BUCKET, uint64_t, true> of research_cuckoo_lsa.cpp.   *)
(* It uses labels, data, num_buckets and num_elems; the statistics counters  *)
(* (same_bucket_count, num_moves, sum_labels) are written and never read by  *)
(* the insertion and are left out.  An element, a uint64_t that is its own    *)
(* hash, is written as <<low 32 bits, high 32 bits>>.                        *)

\* stands for UINT32_MAX, the value min_label and min_label2 start from: the
\* labels are uint8_t, so every label read is below it
LabelTop == 256

\* bucket sizes, capacities asked from the constructor, elements and values
\* of L_max of the workloads
LsaBucketSizes == {2, 3}
LsaCapacities == {3, 4}
MaxLsaHash == 1
LsaElems == {<<h1, h2>> : h1 \in 0 .. MaxLsaHash, h2 \in 0 .. MaxLsaHash}
MaxLsaLabel == 3
MaxLsaOps == 5

\* inline uint64_t HashElem(T elem) { return elem; }
HashElem(elem) == elem

\* Cuckoo_1t(expected_num_elems, random_seed) with IS_BLOCKED
Cuckoo_1t(k, expected_num_elems) ==
    /\ NUM_ELEMS_BUCKET = k
    /\ num_buckets = (expected_num_elems + k - 1) \div k
    /\ num_elems = 0
    /\ labels = [p \in 0 .. ((expected_num_elems + k - 1) \div k) * k - 1 |-> 0]
    /\ data = [p \in 0 .. ((expected_num_elems + k - 1) \div k) * k - 1 |-> NoKey]
    /\ metadata = <<>>
    /\ pc = "ready"
    /\ oob = FALSE
    /\ assert_failed = FALSE
    /\ inserted = {}
    /\ expected = [x \in Keys |-> 0]
    /\ last = [op |-> "none"]
    /\ nops = 0

\* for (i = 0; i < k; i++) load += labels[bucket_pos + i]
RECURSIVE LoadFrom(_, _, _)
LoadFrom(lab, bucket_pos, i) ==
    IF i < NUM_ELEMS_BUCKET
    THEN lab[bucket_pos + i] + LoadFrom(lab, bucket_pos, i + 1)
    ELSE 0

Calculate_Load(lab, bucket_pos) == LoadFrom(lab, bucket_pos, 0)

\* items_pos[i] = bucket1_pos + i; items_pos[i + k] = bucket2_pos + i
ItemsPos(bucket1_pos, bucket2_pos) ==
    [i \in 0 .. 2 * NUM_ELEMS_BUCKET - 1 |->
        IF i < NUM_ELEMS_BUCKET THEN bucket1_pos + i
        ELSE bucket2_pos + i - NUM_ELEMS_BUCKET]

\* a scan that lowers min_label2 only when it finds a new minimum
RECURSIVE FindMinimum_NoSecond(_, _, _, _)
FindMinimum_NoSecond(lab, items_pos, i, acc) ==
    IF i < 2 * NUM_ELEMS_BUCKET
    THEN FindMinimum_NoSecond(lab, items_pos, i + 1,
            IF lab[items_pos[i]] < acc.min_label
            THEN [min_label |-> lab[items_pos[i]], min_label2 |-> acc.min_label,
                  pos |-> items_pos[i]]
            ELSE acc)
    ELSE acc

\* the loop that finds the minimum label, the second minimum and the first
\* position of the minimum: acc = [min_label, min_label2, pos]
RECURSIVE FindMinimum(_, _, _, _)
FindMinimum(lab, items_pos, i, acc) ==
    IF i < 2 * NUM_ELEMS_BUCKET
    THEN FindMinimum(lab, items_pos, i + 1,
            IF lab[items_pos[i]] < acc.min_label
            THEN [min_label |-> lab[items_pos[i]], min_label2 |-> acc.min_label,
                  pos |-> items_pos[i]]
            ELSE IF lab[items_pos[i]] < acc.min_label2
            THEN [acc EXCEPT !.min_label2 = lab[items_pos[i]]]
            ELSE acc)
    ELSE acc

\* the first bin of the bucket at items_pos[bucket_displacement ..] that holds
\* min_label, or pos when there is none
RECURSIVE LeftOf(_, _, _, _, _, _)
LeftOf(lab, items_pos, bucket_displacement, i, min_label, pos) ==
    IF i < NUM_ELEMS_BUCKET
    THEN IF lab[items_pos[bucket_displacement + i]] = min_label
         THEN items_pos[bucket_displacement + i]
         ELSE LeftOf(lab, items_pos, bucket_displacement, i + 1, min_label, pos)
    ELSE pos

\* [pos, min_label, min_label2]
TB_LL_Left(lab, bucket1_pos, bucket2_pos) ==
    LET items_pos == ItemsPos(bucket1_pos, bucket2_pos)
        acc == FindMinimum(lab, items_pos, 0,
                   [min_label |-> LabelTop, min_label2 |-> LabelTop, pos |-> 0])
        bucket_displacement ==
            IF Calculate_Load(lab, bucket1_pos) <= Calculate_Load(lab, bucket2_pos)
            THEN 0 ELSE NUM_ELEMS_BUCKET
    IN  [acc EXCEPT !.pos = LeftOf(lab, items_pos, bucket_displacement, 0,
                                   acc.min_label, acc.pos)]

\* the locals of one iteration of the while (true) of Insert_LSA_max_k2
LsaLocals(lab, elem) ==
    LET hash == HashElem(elem)
        h1 == hash[1]
        h2 == hash[2]
        pos1 == (h1 % num_buckets) * NUM_ELEMS_BUCKET
        pos2 == (h2 % num_buckets) * NUM_ELEMS_BUCKET
    IN  [pos1 |-> pos1, pos2 |-> pos2, t |-> TB_LL_Left(lab, pos1, pos2)]

\* the call Insert_LSA_max_k2(elem, L_max)
LsaBegin(elem, L_max) ==
    /\ pc = "ready"
    /\ pc' = "Insert_LSA_max_k2"
    /\ last' = [op |-> "call", elem |-> elem, L_max |-> L_max]
    /\ nops' = nops + 1
    /\ UNCHANGED <<NUM_ELEMS_BUCKET, num_buckets, num_elems, metadata, data, labels, oob,
                   assert_failed, inserted, expected>>

\* one iteration with locals c: the return of false, the eviction or the
\* placement into an empty bin; labels is uint8_t
LsaIterated(c) ==
    /\ last' = [op |-> "iteration", elem |-> IF c.t.min_label >= last.L_max
                                              \/ c.t.min_label = 0
                                              THEN last.elem ELSE data[c.t.pos],
                L_max |-> last.L_max, c |-> c, before |-> labels,
                ret |-> IF c.t.min_label >= last.L_max THEN "false"
                        ELSE IF c.t.min_label = 0 THEN "true" ELSE "none"]
    /\ pc' = IF c.t.min_label >= last.L_max \/ c.t.min_label = 0
             THEN "ready" ELSE "Insert_LSA_max_k2"
    /\ labels' = IF c.t.min_label >= last.L_max THEN labels
                 ELSE [labels EXCEPT ![c.t.pos] = (c.t.min_label2 + 1) % 256]
    /\ data' = IF c.t.min_label >= last.L_max THEN data
               ELSE [data EXCEPT ![c.t.pos] = last.elem]
    /\ num_elems' = IF c.t.min_label = 0 /\ c.t.min_label < last.L_max
                    THEN num_elems + 1 ELSE num_elems
    /\ UNCHANGED <<NUM_ELEMS_BUCKET, num_buckets, metadata, oob, assert_failed,
                   inserted, expected, nops>>

LsaIterate ==
    /\ pc = "Insert_LSA_max_k2"
    /\ LsaIterated(LsaLocals(labels, last.elem))

InitLsa == \E k \in LsaBucketSizes : \E c \in LsaCapacities : Cuckoo_1t(k, c)

NextLsa ==
    \/ \E x \in LsaElems : \E L_max \in 1 .. MaxLsaLabel :
           nops < MaxLsaOps /\ LsaBegin(x, L_max)
    \/ LsaIterate

SpecLsa == InitLsa /\ [][NextLsa]_vars

\* the bins of bucket b of the blocked table
LsaBucket(b) == b * NUM_ELEMS_BUCKET .. b * NUM_ELEMS_BUCKET + NUM_ELEMS_BUCKET - 1

\* the second smallest of the labels lab of the 2k candidate bins items_pos,
\* a bin that is a candidate twice counting twice
SecondMinimum(lab, items_pos) ==
    CHOOSE v \in 0 .. 255 :
        /\ Cardinality({i \in DOMAIN items_pos : lab[items_pos[i]] <= v}) >= 2
        /\ Cardinality({i \in DOMAIN items_pos : lab[items_pos[i]] < v}) <= 1

\* C38: in the blocked table filled by Insert_LSA_max_k2 with the tie-break
\* TB_LL_Left, the labels of the bins of a bucket differ by at most 1; an
\* iteration that does not return false writes one bin, a candidate that
\* held the smallest label of the 2k candidates, and the label it writes is
\* the second smallest label of the candidates plus 1
C38_Lemma2 ==
    labels # <<>> =>
        /\ \A b \in 0 .. num_buckets - 1 :
             \A p \in LsaBucket(b), q \in LsaBucket(b) : labels[p] - labels[q] <= 1
        /\ (last.op = "iteration" /\ last.ret # "false") =>
             LET items_pos == ItemsPos(last.c.pos1, last.c.pos2)
                 pos == last.c.t.pos
             IN  /\ \E i \in DOMAIN items_pos : items_pos[i] = pos
                 /\ \A i \in DOMAIN items_pos :
                        last.before[pos] <= last.before[items_pos[i]]
                 /\ labels[pos] = SecondMinimum(last.before, items_pos) + 1
                 /\ \A p \in DOMAIN labels : p # pos => labels[p] = last.before[p]

\* an insertion has returned true while a bucket holds the labels 2 and 1, a
\* label raised by an eviction next to one that was not, and another bucket
\* holds a label 3
C38_Witness ==
    /\ labels # <<>>
    /\ pc = "ready"
    /\ last.op = "iteration"
    /\ last.ret = "true"
    /\ \E b \in 0 .. num_buckets - 1 :
         /\ \E p \in LsaBucket(b), q \in LsaBucket(b) : labels[p] = 2 /\ labels[q] = 1
         /\ \E c \in 0 .. num_buckets - 1 :
              c # b /\ \E p \in LsaBucket(c) : labels[p] = 3

=============================================================================
